---- MODULE Spec2Model ----
(***************************************************************************)
(* Walrus runtime: the fiber-based EventLoop (timer registry) of           *)
(* Walrus/EventLoop.h and the thread-based InMemoryBroker of               *)
(* Walrus/InMemoryBroker.h + Walrus/PubSub.h, and the LayerTree of         *)
(* Walrus/LayerTree.cpp, whose nodes are updated by tasks of the           *)
(* ftl::TaskScheduler.                                                     *)
(*                                                                         *)
(* Time is an integer number of milliseconds read from steady_clock.       *)
(* The ftl::TaskScheduler is the bag of tasks that were added and have not *)
(* run yet; it runs them in any order.                                     *)
(***************************************************************************)
EXTENDS Integers, Sequences, FiniteSets, Bags, TLC

\* ---------------------------------------------------------------- bounds
MaxTime   == 2      \* the clock stops advancing here
MaxId     == 2      \* no identifier above this one is generated
MaxStarts == 1      \* EventLoop::Start calls that take effect
LiveMaxId == 1      \* identifiers generated in the fairness specification
Delays    == {0, 1}        \* SetTimeout arguments (ms, >= 0)
NonPositiveDelays == {0, -1}    \* SetTimeout arguments (ms, <= 0)
Periods   == {1}           \* SetInterval arguments (ms, > 0)
NonPositivePeriods == {0, -1}   \* SetInterval arguments (ms, <= 0)
SleepCap  == 100    \* the 100 ms cap on the driving loop's sleep
MaxSubs   == 2      \* Subscribe calls
MaxMsgs   == 1      \* Publish calls
MaxOrdered == 2     \* Publish calls of the application in the ordered broker
MaxRepublish == 1   \* Publish calls made by a handler that is being called
MaxBrokerStarts == 2   \* InMemoryBroker::Start calls that take effect
Topics    == {"x", "y"}
Types     == {"int", "A1", "A2"}   \* payload types T of Subscribe<T>
PubTypes  == {"int", "A1"}         \* payload types T of Publish<T>
MaxUnsubs == 1      \* Unsubscribe calls
Payloads  == {42}
MaxNodes  == 4      \* LayerTreeNode objects created
MaxTicks  == 2      \* LayerTree::UpdateTree calls
MaxBuilds == 2      \* LayerTreeBuilder::Build calls
MaxLinks  == 5      \* elements of m_RootNodes and of all m_Children together
Timesteps == {1, 2}        \* the timestep argument of UpdateTree
ThreadPoolSize == 2 \* ApplicationSpecification::ThreadPoolSize (UltraLowPower)
FiberPoolSize  == 4 \* ApplicationSpecification::FiberPoolSize, scaled down

Names  == {"a", "b"}       \* values of LayerTreeNode::m_Name
LookupNames == Names \cup {"c"}   \* arguments of FindNode: "c" names no node
Nodes  == 1..MaxNodes
Units  == 0..MaxNodes      \* 0 is the UpdateTree call of the driver, n > 0 the
                           \* task that runs UpdateSubtree of node n

Ids    == 1..MaxId
AnyId  == 0..(MaxId + 1)   \* arguments of ClearInterval: 0 and MaxId+1 are never issued

VARIABLES
    \* ---- EventLoop
    clock,            \* std::chrono::steady_clock::now()
    m_TaskScheduler,  \* TRUE iff the pointer is non-null
    m_Running,
    m_NextId,
    timers,           \* the FiberTimer objects, by id
    m_TimerQueue,     \* ids of the FiberTimers in the priority queue
    m_TimerMap,       \* keys of the id -> FiberTimer map
    loopTasks,        \* bag of scheduled EventLoopFiber iterations, each with the
                      \* earliest time at which it can read the clock
    starts,           \* effective Start calls so far
    handed,           \* per id: callback copies handed to the scheduler (AddTask)
    executed,         \* per id: callback copies that have run
    m_TimerMutex,     \* "free", or "held" by a ProcessTimerEvents whose loop
                      \* does not end
    ensuring,         \* ids whose SetTimeout/SetInterval call has pushed the entry
                      \* and has yet to call EnsureEventLoopRunning
    fibers,           \* bag of EventLoopFiber iterations that have returned from
                      \* ProcessTimerEvents and have yet to end, each with its position
    lastPass,         \* the ids whose callback the last ProcessTimerEvents call
                      \* handed to the scheduler, in the order of the AddTask calls
    running,          \* per id: callback copies that a worker is executing
    entries,          \* per id: the elements of the priority queue that carry it
    \* ---- history of the EventLoop
    issued,           \* the ids returned by GenerateId, in issue order
    regTime,          \* per id: the `now` read by SetTimeout/SetInterval
    regMs,            \* per id: the milliseconds argument of that call
    cleared,          \* per id: a ClearInterval(id) that found id in the map has returned
    clearedBeforeDue, \* per id: ... and the clock was before the due-time then
    thrownAt,         \* per id: handed[id] when a copy of its callback first threw
                      \* (0: none has thrown)
    \* ---- InMemoryBroker
    b_Running,        \* InMemoryBroker::m_Running
    b_StopRequested,  \* InMemoryBroker::m_StopRequested
    m_Topics,         \* topic -> queue of message ids
    m_Subscribers,    \* topic -> type name -> list of handler ids
    m_Mutex,          \* "free", or "proc" while the processor thread holds it
    stopping,         \* a Stop() call is joining the processor thread
    bStarts,          \* effective InMemoryBroker::Start calls so far
    unsubs,           \* Unsubscribe calls so far
    p_pc,             \* processor thread: "none", "blocked", "wait", "scan", "call", "exit", "crashed"
    p_owns,           \* owns_lock() of the unique_lock in ProcessMessages
    p_left,           \* topics the range-for over m_Topics has yet to visit
    p_topic,          \* topicPair.first ("" outside the loop body)
    p_msg,            \* the message popped from the queue (0: none)
    p_hs,             \* the handler vector the inner range-for iterates
    p_idx,            \* position of that iteration
    ub,               \* the processor thread has run into undefined behaviour
    messages,         \* the Message<T> objects, by message id
    handlers,         \* per handler id: the Subscribe<T>(topic, handler) that made it
    \* ---- history of the broker
    pubRunning,       \* per message id: IsRunning() when it was published
    fromHandler,      \* the message ids that a handler published while it was called
    invoked,          \* log of <<handler id, message id>>: user handlers invoked
    delivered,        \* per message id: the handler vector its delivery iterated
    received,         \* log of [handler, payload, topic]: the Message<T> a user
                      \* handler was invoked with, in step with `invoked`
    subsAtPublish,    \* per message id: the handlers of the message's (topic, T)
                      \* that were subscribed when it was published
    knownAtPublish,   \* per message id: the number of Subscribe calls before it
    clearedTopics,    \* the topics of the Unsubscribe(topic) calls without a type
    \* ---- LayerTree
    m_RootNodes,      \* LayerTree::m_RootNodes, a sequence of node ids
    m_Children,       \* per node: LayerTreeNode::m_Children
    nNodes,           \* LayerTreeNode objects created so far
    ticks,            \* UpdateTree calls so far
    timestep,         \* the timestep of the UpdateTree call in progress (or the last)
    t_pc,             \* per unit: "driver" (unit 0 outside UpdateTree), "idle",
                      \* "queued", "OnUpdate", "wait", "spin", "parked", "done"
    wg,               \* per unit: the counter of the ftl::WaitGroup it waits on
    terminated,       \* std::terminate has ended the process
    m_Name,           \* per node: LayerTreeNode::m_Name
    m_Layer,          \* per node: TRUE iff LayerTreeNode::m_Layer is non-null
    \* ---- history of the LayerTree
    updates,          \* per node: OnUpdate calls of its layer in this tick
    got,              \* per node: the timestep its OnUpdate was called with
    threw,            \* the node whose OnUpdate threw (0: none)
    attached,         \* per node: OnAttach calls of its layer in the last OnAttachAll
    detached,         \* per node: OnDetach calls of its layer in the last OnDetachAll
    lastWalk,         \* the last OnAttachAll/OnDetachAll call: which one, and
                      \* whether a hook threw and ended it
    lastFind,         \* the last FindNode/FindAllNodes call: its name argument and
                      \* what it returned (0: nullptr)
    \* ---- LayerTreeBuilder
    trees,            \* the LayerTree objects the builder made: per object its
                      \* m_RootNodes; their nodes are among the LayerTreeNode objects
    m_Tree,           \* LayerTreeBuilder::m_Tree, an index of trees
    m_Context,        \* LayerTreeBuilder::m_Context, a sequence of node ids
    \* ---- history of the LayerTreeBuilder
    built,            \* per Build call: the object it returned and what its nodes
                      \* were then
    \* ---- Application
    app_Running,      \* Application::m_Running
    a_tested,         \* Run: `ticks` when the loop last tested m_Running (-1: never)
    a_seen,           \* Run: what that test read (TRUE before the first test)
    \* ---- history of the Application
    closedAt          \* `ticks` when Close() was called (-1: not called)

elVars  == <<clock, m_TaskScheduler, m_Running, m_NextId, timers, m_TimerQueue,
             m_TimerMap, loopTasks, starts, handed, executed, m_TimerMutex>>
elHist  == <<issued, regTime, regMs, cleared, clearedBeforeDue, thrownAt>>
brVars  == <<b_Running, b_StopRequested, m_Topics, m_Subscribers, m_Mutex,
             stopping, bStarts, unsubs, p_pc, p_owns, p_left, p_topic, p_msg,
             p_hs, p_idx, ub, messages, handlers>>
brHist  == <<pubRunning, fromHandler, invoked, delivered, received, subsAtPublish,
             knownAtPublish, clearedTopics>>
ltVars  == <<m_RootNodes, m_Children, nNodes, ticks, timestep, t_pc, wg, terminated>>
ltHist  == <<updates, got, threw>>
elFine  == <<ensuring, fibers>>
elObs   == <<lastPass, running, entries>>
elAll   == <<elVars, elHist, elFine, elObs>>
brAll   == <<brVars, brHist>>
ltNode  == <<m_Name, m_Layer>>
ltHook  == <<attached, detached, lastWalk>>
ltFind  == <<lastFind>>
lbVars  == <<trees, m_Tree, m_Context, built>>
ltAll   == <<ltVars, ltHist, ltNode, ltHook, ltFind, lbVars>>
apVars  == <<app_Running, a_tested, a_seen, closedAt>>
vars    == <<elVars, elHist, elFine, elObs, brVars, brHist, ltVars, ltHist, ltNode, ltHook,
             ltFind, lbVars, apVars>>

\* ------------------------------------------------------------ EventLoop

\* m_TimerQueue.top(): an entry with the least nextExecution (min-heap comparator)
Top_Latest(tm, q) == CHOOSE i \in q : \A j \in q : tm[i].nextExecution >= tm[j].nextExecution
Top(tm, q) == CHOOSE i \in q : \A j \in q : tm[i].nextExecution <= tm[j].nextExecution

\* f[1] + ... + f[n]
RECURSIVE SumTo(_, _)
SumTo(f, n) == IF n = 0 THEN 0 ELSE f[n] + SumTo(f, n - 1)

BagAdd(b, x) == b (+) SetToBag({x})
BagDel(b, x) == b (-) SetToBag({x})

\* EventLoop::EventLoop()
ELInit ==
    /\ clock = 0
    /\ m_TaskScheduler = FALSE
    /\ m_Running = FALSE
    /\ m_NextId = 1
    /\ timers = << >>
    /\ m_TimerQueue = {}
    /\ m_TimerMap = {}
    /\ loopTasks = EmptyBag
    /\ starts = 0
    /\ handed = [i \in Ids |-> 0]
    /\ executed = [i \in Ids |-> 0]
    /\ m_TimerMutex = "free"
    /\ ensuring = {}
    /\ fibers = EmptyBag
    /\ lastPass = << >>
    /\ running = [i \in Ids |-> 0]
    /\ entries = [i \in Ids |-> 0]
    /\ thrownAt = [i \in Ids |-> 0]
    /\ issued = << >>
    /\ regTime = [i \in Ids |-> 0]
    /\ regMs = [i \in Ids |-> 0]
    /\ cleared = [i \in Ids |-> FALSE]
    /\ clearedBeforeDue = [i \in Ids |-> FALSE]

\* steady_clock advances
Tick ==
    /\ clock < MaxTime
    /\ clock' = clock + 1
    /\ UNCHANGED <<apVars, brAll, elFine, elObs, m_TimerMutex, ltAll, m_TaskScheduler, m_Running, m_NextId, timers, m_TimerQueue,
                   m_TimerMap, loopTasks, starts, handed, executed, elHist>>

\* EventLoop::Init(scheduler)
EventLoopInit ==
    /\ ~m_TaskScheduler
    /\ m_TaskScheduler' = TRUE
    /\ UNCHANGED <<apVars, brAll, elFine, elObs, m_TimerMutex, ltAll, clock, m_Running, m_NextId, timers, m_TimerQueue,
                   m_TimerMap, loopTasks, starts, handed, executed, elHist>>

\* EventLoop::Start
Start ==
    /\ starts < MaxStarts
    /\ ~(m_Running \/ ~m_TaskScheduler)          \* otherwise: early return
    /\ m_Running' = TRUE
    /\ loopTasks' = BagAdd(loopTasks, clock)     \* AddTask(eventLoopTask)
    /\ starts' = starts + 1
    /\ UNCHANGED <<apVars, brAll, elFine, elObs, m_TimerMutex, ltAll, clock, m_TaskScheduler, m_NextId, timers, m_TimerQueue,
                   m_TimerMap, handed, executed, elHist>>

\* EventLoop::Stop
Stop ==
    /\ m_Running                                 \* otherwise: early return
    /\ m_Running' = FALSE
    /\ UNCHANGED <<apVars, brAll, elFine, elObs, m_TimerMutex, ltAll, clock, m_TaskScheduler, m_NextId, timers, m_TimerQueue,
                   m_TimerMap, loopTasks, starts, handed, executed, elHist>>

\* EventLoop::GenerateId: m_NextId.fetch_add(1), <<returned id, new counter>>
GenerateId_NoIncrement(next) == <<next, next>>
GenerateId(next) == <<next, next + 1>>

\* the FiberTimer built by SetTimeout / SetInterval
FiberTimer_BornCancelled(next, interval, repeat) ==
    [nextExecution |-> next, interval |-> interval, repeat |-> repeat,
     cancelled |-> TRUE]
FiberTimer(next, interval, repeat) ==
    [nextExecution |-> next, interval |-> interval, repeat |-> repeat,
     cancelled |-> FALSE]

\* EventLoop::EnsureEventLoopRunning: the scheduled iterations after the call
EnsureEventLoopRunning_Never(tasks) == tasks
EnsureEventLoopRunning(tasks) ==
    IF m_Running /\ m_TaskScheduler THEN BagAdd(tasks, clock) ELSE tasks

\* lines shared by SetTimeout and SetInterval: GenerateId, read the clock,
\* build the entry, push it and index it under m_TimerMutex, then
\* EnsureEventLoopRunning.  (The task that EnsureEventLoopRunning adds is not
\* visible to any other thread before a worker starts it, and the push neither
\* reads nor writes m_Running, so the call is one step.)
Register(ms, interval, repeat) ==
    LET g  == GenerateId(m_NextId)
        id == g[1]
    IN  /\ m_TimerMutex = "free"
        /\ m_NextId' = g[2]
        /\ timers' = (id :> FiberTimer(clock + ms, interval, repeat)) @@ timers
        /\ m_TimerQueue' = m_TimerQueue \cup {id}
        /\ m_TimerMap' = m_TimerMap \cup {id}
        /\ entries' = [entries EXCEPT ![id] = @ + 1]
        /\ loopTasks' = EnsureEventLoopRunning(loopTasks)
        /\ issued' = Append(issued, id)
        /\ regTime' = [regTime EXCEPT ![id] = clock]
        /\ regMs' = [regMs EXCEPT ![id] = ms]
        /\ UNCHANGED <<apVars, brAll, elFine, lastPass, running, m_TimerMutex, ltAll, thrownAt, clock, m_TaskScheduler, m_Running, starts, handed,
                       executed, cleared, clearedBeforeDue>>

\* EventLoop::SetTimeout(callback, ms); without a scheduler it returns 0
SetTimeout(ms) ==
    /\ m_NextId <= MaxId
    /\ m_TaskScheduler
    /\ Register(ms, 0, FALSE)

\* EventLoop::SetInterval(callback, ms)
SetInterval(ms) ==
    /\ m_NextId <= MaxId
    /\ m_TaskScheduler
    /\ Register(ms, ms, TRUE)

\* EventLoop::SetImmediate(callback): AddTask at once, no queue, no map
SetImmediate_ViaQueue ==
    /\ m_NextId <= MaxId
    /\ m_TaskScheduler
    /\ Register(0, 0, FALSE)
SetImmediate ==
    /\ m_NextId <= MaxId
    /\ m_TaskScheduler
    /\ LET g  == GenerateId(m_NextId)
           id == g[1]
       IN  /\ m_NextId' = g[2]
           /\ handed' = [handed EXCEPT ![id] = @ + 1]
           /\ issued' = Append(issued, id)
    /\ UNCHANGED <<apVars, brAll, elFine, elObs, m_TimerMutex, ltAll, thrownAt, clock, m_TaskScheduler, m_Running, timers, m_TimerQueue,
                   m_TimerMap, loopTasks, starts, executed, regTime, regMs, cleared, clearedBeforeDue>>

\* ClearInterval, line 683: it->second->cancelled.store(true)
Cancel_Not(tm, id) == tm
Cancel(tm, id) == [tm EXCEPT ![id].cancelled = TRUE]

\* ClearInterval, line 684: m_TimerMap.erase(it)
EraseId_Not(map, id) == map
EraseId(map, id) == map \ {id}

\* what ClearInterval does to <<timers, m_TimerMap>>: nothing if find(id) fails
ClearEffect(tm, map, id) ==
    IF id \in map
    THEN <<Cancel(tm, id), EraseId(map, id)>>
    ELSE <<tm, map>>

\* EventLoop::ClearInterval(id), under m_TimerMutex
ClearInterval(id) ==
    LET r == ClearEffect(timers, m_TimerMap, id)
        found == id \in m_TimerMap
    IN  /\ m_TimerMutex = "free"
        /\ timers' = r[1]
        /\ m_TimerMap' = r[2]
        /\ cleared' = IF found THEN [cleared EXCEPT ![id] = TRUE] ELSE cleared
        /\ clearedBeforeDue' =
              IF found /\ clock < timers[id].nextExecution
              THEN [clearedBeforeDue EXCEPT ![id] = TRUE] ELSE clearedBeforeDue
        /\ UNCHANGED <<apVars, brAll, elFine, elObs, m_TimerMutex, ltAll, thrownAt, clock, m_TaskScheduler, m_Running, m_NextId, m_TimerQueue,
                       loopTasks, starts, handed, executed, issued, regTime, regMs>>

\* EventLoop::ClearTimeout(id): "Same implementation for both"
ClearTimeout(id) == ClearInterval(id)

\* ProcessTimerEvents, line 762: the head of the queue is due
IsDue_Early(ev, now) == ev.nextExecution <= (IF ev.repeat THEN now ELSE now + 1)
IsDue(ev, now) == ev.nextExecution <= now

\* ProcessTimerEvents, line 766: a popped entry that is cancelled is dropped
Skip_Never(ev) == FALSE
Skip(ev) == ev.cancelled

\* ProcessTimerEvents, line 792: a fired entry goes back into the queue
Rearm_Never(ev) == FALSE
Rearm(ev) == ev.repeat /\ ~ev.cancelled

\* ProcessTimerEvents, line 793: the due-time of a re-armed entry
NextDue(ev, now) == now + ev.interval

\* the while loop of ProcessTimerEvents, run under m_TimerMutex on
\* s = [tm, q, map, handed]
RECURSIVE PollLoop(_, _)
PollLoop(now, s) ==
    IF s.q = {} \/ ~IsDue(s.tm[Top(s.tm, s.q)], now)
    THEN s
    ELSE LET id     == Top(s.tm, s.q)
             ev     == s.tm[id]
             popped == [s EXCEPT !.q = @ \ {id},                 \* pop()
                                 !.entries[id] = @ - 1]
         IN  IF Skip(ev)
             THEN PollLoop(now, popped)                           \* continue
             ELSE LET h == [popped EXCEPT !.handed[id] = @ + 1,   \* AddTask(timerTask)
                                          !.order = Append(@, id)]
                  IN  IF Rearm(ev)
                      THEN PollLoop(now, [h EXCEPT
                               !.tm[id].nextExecution = NextDue(ev, now),
                               !.q = @ \cup {id},
                               !.entries[id] = @ + 1])
                      ELSE PollLoop(now, [h EXCEPT !.map = @ \ {id}])

\* the while loop of ProcessTimerEvents does not end: `now` is read once
\* (line 758), so a due entry that is re-armed with an interval <= 0 is due
\* again at once (lines 762, 793-794)
Diverges(now) ==
    \E id \in m_TimerQueue :
        /\ IsDue(timers[id], now)
        /\ ~Skip(timers[id])
        /\ Rearm(timers[id])
        /\ NextDue(timers[id], now) <= now

\* EventLoop::ProcessTimerEvents from the lock to the unlock
ProcessTimerEvents(now) ==
    PollLoop(now, [tm |-> timers, q |-> m_TimerQueue, map |-> m_TimerMap,
                   handed |-> handed, order |-> << >>, entries |-> entries])

\* EventLoopFiber lines 715-722: the sleep before the next iteration
SleepDelay(nextTimerTime, now) ==
    LET delay == IF nextTimerTime > now THEN nextTimerTime - now ELSE 0
    IN  IF delay > SleepCap THEN SleepCap ELSE delay

\* EventLoop::EventLoopFiber, one iteration of the driving loop.  The iteration
\* could start at time t; it read `now` (line 758) at some time since then,
\* before it got m_TimerMutex: other iterations may have polled in between.
\* After ProcessTimerEvents it adds a delayedTask only while running and while
\* the queue is not empty (lines 699-754); that lambda sleeps for `delay` and
\* then adds the next iteration, which so cannot start before clock + delay.
EventLoopFiber(t, now) ==
    /\ BagIn(t, loopTasks)
    /\ now \in t..clock
    /\ m_TimerMutex = "free"
    /\ ~Diverges(now)
    /\ UNCHANGED <<apVars, brAll, elFine, running, m_TimerMutex, ltAll, clock, m_TaskScheduler, m_Running, m_NextId, starts,
                   executed, elHist>>
    /\ \E r \in {ProcessTimerEvents(now)} :
           /\ timers' = r.tm
           /\ m_TimerQueue' = r.q
           /\ m_TimerMap' = r.map
           /\ handed' = r.handed
           /\ lastPass' = r.order
           /\ entries' = r.entries
           /\ loopTasks' =
                 IF m_Running /\ r.q # {}
                 THEN BagAdd(BagDel(loopTasks, t),
                             clock + SleepDelay(r.tm[Top(r.tm, r.q)].nextExecution, clock))
                 ELSE BagDel(loopTasks, t)

\* EventLoop::EventLoopFiber whose ProcessTimerEvents does not return: the
\* loop keeps m_TimerMutex and hands a copy of the callback of a re-armed
\* entry to the scheduler on every trip, without end (one is recorded)
PollDiverges(t, now) ==
    /\ BagIn(t, loopTasks)
    /\ now \in t..clock
    /\ m_TimerMutex = "free"
    /\ Diverges(now)
    /\ m_TimerMutex' = "held"
    /\ loopTasks' = BagDel(loopTasks, t)
    /\ handed' = [id \in Ids |->
                    IF /\ id \in m_TimerQueue
                       /\ IsDue(timers[id], now) /\ ~Skip(timers[id])
                       /\ Rearm(timers[id]) /\ NextDue(timers[id], now) <= now
                    THEN handed[id] + 1 ELSE handed[id]]
    /\ UNCHANGED <<apVars, brAll, elFine, elObs, ltAll, clock, m_TaskScheduler, m_Running, m_NextId, timers,
                   m_TimerQueue, m_TimerMap, starts, executed, elHist>>

\* the try block of the timerTask / immediateTask lambda: the handlers for
\* std::exception and for everything else let no exception leave the lambda
Escapes_NoCatch(throws) == throws
Escapes(throws) == FALSE

\* the timerTask / immediateTask lambda: a worker runs one callback copy,
\* which returns or throws; an exception that left the lambda would find no
\* handler on the fiber and end the process
RunCallback(id, throws) ==
    /\ ~terminated
    /\ executed[id] < handed[id]
    /\ executed' = [executed EXCEPT ![id] = @ + 1]
    /\ thrownAt' = IF throws /\ thrownAt[id] = 0
                   THEN [thrownAt EXCEPT ![id] = handed[id]] ELSE thrownAt
    /\ terminated' = Escapes(throws)
    /\ UNCHANGED <<apVars, brAll, elFine, elObs, m_TimerMutex, clock, m_TaskScheduler, m_Running, m_NextId, timers,
                   m_TimerQueue, m_TimerMap, loopTasks, starts, handed,
                   issued, regTime, regMs, cleared, clearedBeforeDue>>
    /\ UNCHANGED <<m_RootNodes, m_Children, nNodes, ticks, timestep, t_pc, wg, ltHist,
                   ltNode, ltHook, ltFind, lbVars>>

\* the timerTask lambda, line 775: a worker thread of the scheduler takes a
\* callback copy that was handed over and calls it; the scheduler runs its
\* tasks on ThreadPoolSize threads and keeps no order among them
CallbackBegin(id) ==
    /\ ~terminated
    /\ executed[id] + running[id] < handed[id]
    /\ SumTo(running, MaxId) < ThreadPoolSize
    /\ running' = [running EXCEPT ![id] = @ + 1]
    /\ UNCHANGED <<apVars, brAll, ltAll, elVars, elHist, elFine, lastPass, entries>>

\* the timerTask lambda, lines 775-783: the callback returns or throws
CallbackEnd(id, throws) ==
    /\ ~terminated
    /\ running[id] > 0
    /\ running' = [running EXCEPT ![id] = @ - 1]
    /\ executed' = [executed EXCEPT ![id] = @ + 1]
    /\ thrownAt' = IF throws /\ thrownAt[id] = 0
                   THEN [thrownAt EXCEPT ![id] = handed[id]] ELSE thrownAt
    /\ terminated' = Escapes(throws)
    /\ UNCHANGED <<apVars, brAll, elFine, lastPass, entries, m_TimerMutex, clock, m_TaskScheduler, m_Running,
                   m_NextId, timers, m_TimerQueue, m_TimerMap, loopTasks, starts, handed,
                   issued, regTime, regMs, cleared, clearedBeforeDue>>
    /\ UNCHANGED <<m_RootNodes, m_Children, nNodes, ticks, timestep, t_pc, wg, ltHist,
                   ltNode, ltHook, ltFind, lbVars>>

\* the registry with callbacks that take time
ELOverlapNext ==
    \/ Tick
    \/ EventLoopInit
    \/ Start
    \/ Stop
    \/ \E ms \in Delays : SetTimeout(ms)
    \/ \E ms \in Periods : SetInterval(ms)
    \/ \E id \in AnyId : ClearInterval(id)
    \/ \E t \in 0..MaxTime, now \in 0..MaxTime : EventLoopFiber(t, now)
    \/ \E id \in Ids : CallbackBegin(id)
    \/ \E id \in Ids, throws \in BOOLEAN : CallbackEnd(id, throws)

ELNext ==
    \/ Tick
    \/ EventLoopInit
    \/ Start
    \/ Stop
    \/ \E ms \in Delays : SetTimeout(ms)
    \/ \E ms \in Periods : SetInterval(ms)
    \/ SetImmediate
    \/ \E id \in AnyId : ClearInterval(id)
    \/ \E t \in 0..MaxTime, now \in 0..MaxTime : EventLoopFiber(t, now)
    \/ \E id \in Ids, throws \in BOOLEAN : RunCallback(id, throws)

\* -------------------------------------------------------- InMemoryBroker

\* typeid(T).name() for the payload types of Types.  A1 and A2 are two
\* distinct types of one name (a type of the same name in the unnamed
\* namespace of two translation units): type_info::name() is not injective,
\* type_info::operator== is.
TypeName(T) ==
    CASE T = "int" -> "i"
      [] T = "A1"  -> "A"
      [] T = "A2"  -> "A"
      [] T = "void" -> "v"

\* InMemoryBroker() = default, no processor thread yet
BrokerInit ==
    /\ b_Running = FALSE
    /\ b_StopRequested = FALSE
    /\ m_Topics = << >>
    /\ m_Subscribers = << >>
    /\ m_Mutex = "free"
    /\ stopping = FALSE
    /\ bStarts = 0
    /\ unsubs = 0
    /\ p_pc = "none"
    /\ p_owns = FALSE
    /\ p_left = {}
    /\ p_topic = ""
    /\ p_msg = 0
    /\ p_hs = << >>
    /\ p_idx = 0
    /\ ub = FALSE
    /\ messages = << >>
    /\ handlers = << >>
    /\ pubRunning = << >>
    /\ fromHandler = {}
    /\ invoked = << >>
    /\ delivered = << >>
    /\ received = << >>
    /\ subsAtPublish = << >>
    /\ knownAtPublish = << >>
    /\ clearedTopics = {}

\* the process has not been brought down by undefined behaviour
Alive == p_pc # "crashed"

\* std::lock_guard<std::mutex> lock(m_Mutex) can be taken
MutexFree == m_Mutex = "free"

\* the processor thread is inside `for (auto& topicPair : m_Topics)`
InPass == p_pc \in {"scan", "call"}

\* the processor thread reads the containers without holding m_Mutex
Racing == p_pc = "scan" /\ m_Mutex # "proc"

\* lines 177-183: the handler vector of (topic, typeName), empty if there is none
FindHandlers_AnyTopic(subs, topic, typeName) ==
    IF \E t \in DOMAIN subs : typeName \in DOMAIN subs[t]
    THEN subs[CHOOSE t \in DOMAIN subs : typeName \in DOMAIN subs[t]][typeName]
    ELSE << >>
FindHandlers(subs, topic, typeName) ==
    IF topic \in DOMAIN subs /\ typeName \in DOMAIN subs[topic]
    THEN subs[topic][typeName]
    ELSE << >>

\* the inner range-for of ProcessMessages is iterating the vector of (topic, typeName)
IteratingVec(topic, typeName) ==
    /\ InPass
    /\ p_msg # 0
    /\ p_idx <= Len(p_hs)
    /\ p_topic = topic
    /\ TypeName(messages[p_msg].type) = typeName

\* IBroker::Subscribe<T>: the genericHandler calls the user's handler only if
\* baseMsg->GetType() == typeid(T)
Accepts(h, msg) == msg.type = h.type

\* IBroker::Subscribe<T>, genericHandler: any_cast<T> of the raw data and
\* Message<T> typedMsg(data, baseMsg->GetTopic()), as handler h receives it
TypedMsg(h, msg) == [handler |-> h, payload |-> msg.data, topic |-> msg.topic]

\* the wait predicate of ProcessMessages (lines 152-161)
WaitPredicate ==
    b_StopRequested \/ \E t \in DOMAIN m_Topics : m_Topics[t] # << >>

\* IBroker::Subscribe<T>(topic, handler) -> InMemoryBroker::SubscribeInternal.
\* A push_back on the vector that the processor thread iterates (it has
\* released the mutex for a handler) may reallocate it; an insertion into
\* m_Topics during the pass may or may not be visited by the pass.
Subscribe(topic, T, throws) ==
    /\ Alive
    /\ MutexFree
    /\ Len(handlers) < MaxSubs
    /\ LET h  == Len(handlers) + 1
           tn == TypeName(T)
           byType == IF topic \in DOMAIN m_Subscribers THEN m_Subscribers[topic] ELSE << >>
           vec == Append(FindHandlers(m_Subscribers, topic, tn), h)
       IN  /\ handlers' = Append(handlers, [topic |-> topic, type |-> T, throws |-> throws])
           /\ m_Subscribers' = (topic :> ((tn :> vec) @@ byType)) @@ m_Subscribers
           /\ m_Topics' = IF topic \in DOMAIN m_Topics THEN m_Topics
                          ELSE (topic :> << >>) @@ m_Topics
           /\ p_left' \in IF InPass /\ topic \notin DOMAIN m_Topics
                          THEN {p_left, p_left \cup {topic}} ELSE {p_left}
           /\ ub' = (ub \/ Racing \/ IteratingVec(topic, tn)
                        \/ (InPass /\ topic \notin DOMAIN m_Topics))
    /\ UNCHANGED <<apVars, elAll, ltAll, unsubs, b_Running, b_StopRequested, m_Mutex, stopping, bStarts,
                   p_pc, p_owns, p_topic, p_msg, p_hs, p_idx, messages, brHist>>

\* line 140: std::queue::push puts the message at the back of the queue
Push_Front(queue, m) == <<m>> \o queue
Push(queue, m) == Append(queue, m)

\* InMemoryBroker::PublishInternal with the Message<T> that
\* IBroker::Publish<T> made: make_shared<Message<T>>(data, topic), push under
\* the mutex, notify_all
PublishInternal(topic, T, data) ==
    /\ Alive
    /\ MutexFree
    /\ LET m == Len(messages) + 1
           queue == IF topic \in DOMAIN m_Topics THEN m_Topics[topic] ELSE << >>
       IN  /\ messages' = Append(messages, [topic |-> topic, type |-> T, data |-> data])
           /\ m_Topics' = (topic :> Push(queue, m)) @@ m_Topics
           /\ pubRunning' = Append(pubRunning, b_Running)
           /\ knownAtPublish' = Append(knownAtPublish, Len(handlers))
           /\ subsAtPublish' = Append(subsAtPublish,
                  {h \in DOMAIN handlers :
                      /\ handlers[h].type = T
                      /\ \E k \in DOMAIN FindHandlers(m_Subscribers, topic, TypeName(T)) :
                            FindHandlers(m_Subscribers, topic, TypeName(T))[k] = h})
           /\ p_left' \in IF InPass /\ topic \notin DOMAIN m_Topics
                          THEN {p_left, p_left \cup {topic}} ELSE {p_left}
           /\ ub' = (ub \/ Racing \/ (InPass /\ topic \notin DOMAIN m_Topics))
    /\ UNCHANGED <<apVars, elAll, ltAll, unsubs, b_Running, b_StopRequested, m_Subscribers, m_Mutex, stopping,
                   bStarts, p_pc, p_owns, p_topic, p_msg, p_hs, p_idx, handlers,
                   invoked, delivered, received, clearedTopics>>

\* IBroker::Publish<T>(topic, data), called by a thread of the application
Publish(topic, T, data) ==
    /\ Len(messages) < MaxMsgs
    /\ PublishInternal(topic, T, data)
    /\ UNCHANGED fromHandler

\* IBroker::Publish<T>(topic, data), called by the user's handler that the
\* processor thread is executing (line 187); genericHandler calls it only
\* with a message of its type
HandlerPublishes(topic, T, data) ==
    /\ p_pc = "call"
    /\ Accepts(handlers[p_hs[p_idx]], messages[p_msg])
    /\ Cardinality(fromHandler) < MaxRepublish
    /\ PublishInternal(topic, T, data)
    /\ fromHandler' = fromHandler \cup {Len(messages) + 1}

\* IBroker::Publish<int>(topic, data), called by threads of the application
\* one call after the other
PublishNext(topic, data) ==
    /\ Len(messages) < MaxOrdered
    /\ PublishInternal(topic, "int", data)
    /\ UNCHANGED fromHandler

\* Unsubscribe, line 82: m_Subscribers[topic].clear()
ClearTopic_All(subs, topic) == [t \in (DOMAIN subs) \cup {topic} |-> << >>]
ClearTopic(subs, topic) == (topic :> << >>) @@ subs

\* InMemoryBroker::Unsubscribe(topic, typeInfo); typeInfo defaults to typeid(void)
Unsubscribe(topic, T) ==
    /\ Alive
    /\ MutexFree
    /\ unsubs < MaxUnsubs
    /\ unsubs' = unsubs + 1
    /\ clearedTopics' = IF T = "void" THEN clearedTopics \cup {topic} ELSE clearedTopics
    /\ LET tn == TypeName(T)
           byType == IF topic \in DOMAIN m_Subscribers THEN m_Subscribers[topic] ELSE << >>
       IN  /\ m_Subscribers' =
                 IF T = "void"
                 THEN ClearTopic(m_Subscribers, topic)
                 ELSE IF topic \in DOMAIN m_Subscribers
                      THEN (topic :> [n \in (DOMAIN byType) \ {tn} |-> byType[n]])
                               @@ m_Subscribers                  \* erase(typeIt)
                      ELSE m_Subscribers
           /\ ub' = (ub \/ Racing
                        \/ \E n \in DOMAIN byType :
                              (T = "void" \/ n = tn) /\ IteratingVec(topic, n))
    /\ UNCHANGED <<apVars, elAll, ltAll, b_Running, b_StopRequested, m_Topics, m_Mutex, stopping, bStarts,
                   p_pc, p_owns, p_left, p_topic, p_msg, p_hs, p_idx, messages,
                   handlers, pubRunning, fromHandler,
                   invoked, delivered, received, subsAtPublish, knownAtPublish>>

\* InMemoryBroker::IsRunning
IsRunning == b_Running

\* InMemoryBroker::Start.  On a running broker it returns at once (lines
\* 45-47).  Otherwise the new thread runs ProcessMessages, whose unique_lock
\* takes the mutex before the first wait; on a mutex that a former processor
\* thread left locked when it ended, the constructor of the unique_lock
\* never returns.
BrokerStart ==
    /\ Alive
    /\ IF IsRunning
       THEN UNCHANGED vars
       ELSE /\ bStarts < MaxBrokerStarts
            /\ b_Running' = TRUE
            /\ b_StopRequested' = FALSE
            /\ bStarts' = bStarts + 1
            /\ p_pc' = IF MutexFree THEN "wait" ELSE "blocked"
            /\ p_owns' = MutexFree
            /\ p_left' = {}
            /\ p_topic' = ""
            /\ p_msg' = 0
            /\ p_hs' = << >>
            /\ p_idx' = 0
            /\ UNCHANGED <<apVars, elAll, ltAll, unsubs, m_Topics, m_Subscribers, m_Mutex, stopping,
                           ub, messages, handlers, brHist>>

\* InMemoryBroker::Stop up to the join.  On a stopped broker it returns at
\* once (lines 58-60).
BrokerStopRequest ==
    /\ Alive
    /\ IF ~IsRunning
       THEN UNCHANGED vars
       ELSE /\ ~stopping
            /\ b_StopRequested' = TRUE
            /\ stopping' = TRUE
            /\ UNCHANGED <<apVars, elAll, ltAll, unsubs, b_Running, m_Topics, m_Subscribers, m_Mutex,
                           bStarts, p_pc, p_owns, p_left, p_topic, p_msg, p_hs, p_idx, ub,
                           messages, handlers, brHist>>

\* InMemoryBroker::Stop from the return of join()
BrokerStopJoin ==
    /\ stopping
    /\ p_pc = "exit"
    /\ b_Running' = FALSE
    /\ stopping' = FALSE
    /\ UNCHANGED <<apVars, elAll, ltAll, unsubs, b_StopRequested, m_Topics, m_Subscribers, m_Mutex, bStarts,
                   p_pc, p_owns, p_left, p_topic, p_msg, p_hs, p_idx, ub, messages,
                   handlers, brHist>>

\* ProcessMessages: m_Condition.wait returns with the mutex (a wait that was
\* entered on an unlocked unique_lock re-locks the mutex all the same, and
\* owns_lock() stays false); then line 163 leaves the loop, or the pass starts
ProcWake ==
    /\ p_pc = "wait"
    /\ WaitPredicate
    /\ MutexFree
    /\ IF b_StopRequested
       THEN /\ p_pc' = "exit"
            /\ m_Mutex' = IF p_owns THEN "free" ELSE "proc"     \* ~unique_lock
            /\ UNCHANGED p_left
       ELSE /\ p_pc' = "scan"
            /\ m_Mutex' = "proc"
            /\ p_left' = DOMAIN m_Topics
    /\ p_topic' = ""
    /\ UNCHANGED <<apVars, elAll, ltAll, unsubs, b_Running, b_StopRequested, m_Topics, m_Subscribers, stopping,
                   bStarts, p_owns, p_msg, p_hs, p_idx, ub, messages, handlers, brHist>>

\* line 172: `while (!messageQueue.empty())` is over (or was not entered yet)
QueueEmpty == IF p_topic = "" THEN TRUE ELSE m_Topics[p_topic] = << >>

\* line 168: the range-for over m_Topics takes the next topic
ProcNextTopic(t) ==
    /\ p_pc = "scan"
    /\ p_msg = 0
    /\ QueueEmpty
    /\ t \in p_left
    /\ p_topic' = t
    /\ p_left' = p_left \ {t}
    /\ UNCHANGED <<apVars, elAll, ltAll, unsubs, b_Running, b_StopRequested, m_Topics, m_Subscribers, m_Mutex,
                   stopping, bStarts, p_pc, p_owns, p_msg, p_hs, p_idx, ub, messages,
                   handlers, brHist>>

\* lines 172-183: front(), pop(), and the look-up of the handler vector
ProcPop ==
    /\ p_pc = "scan"
    /\ p_msg = 0
    /\ p_topic # ""
    /\ m_Topics[p_topic] # << >>
    /\ LET m == Head(m_Topics[p_topic])
       IN  /\ p_msg' = m
           /\ m_Topics' = [m_Topics EXCEPT ![p_topic] = Tail(@)]
           /\ p_hs' = FindHandlers(m_Subscribers, p_topic, TypeName(messages[m].type))
           /\ p_idx' = 1
    /\ UNCHANGED <<apVars, elAll, ltAll, unsubs, b_Running, b_StopRequested, m_Subscribers, m_Mutex, stopping,
                   bStarts, p_pc, p_owns, p_left, p_topic, ub, messages, handlers, brHist>>

\* line 186: lock.unlock() on the owned lock
ProcUnlock ==
    /\ p_pc = "scan"
    /\ p_msg # 0
    /\ p_idx <= Len(p_hs)
    /\ p_owns
    /\ m_Mutex' = "free"
    /\ p_owns' = FALSE
    /\ p_pc' = "call"
    /\ UNCHANGED <<apVars, elAll, ltAll, unsubs, b_Running, b_StopRequested, m_Topics, m_Subscribers, stopping,
                   bStarts, p_left, p_topic, p_msg, p_hs, p_idx, ub, messages,
                   handlers, brHist>>

\* line 186: lock.unlock() on a lock that is not owned throws
\* std::system_error; line 191 catches it and the range-for goes on to the
\* next handler
ProcUnlockThrows ==
    /\ p_pc = "scan"
    /\ p_msg # 0
    /\ p_idx <= Len(p_hs)
    /\ ~p_owns
    /\ p_idx' = p_idx + 1
    /\ UNCHANGED <<apVars, elAll, ltAll, unsubs, b_Running, b_StopRequested, m_Topics, m_Subscribers, m_Mutex,
                   stopping, bStarts, p_pc, p_owns, p_left, p_topic, p_msg, p_hs, ub,
                   messages, handlers, brHist>>

\* lines 187-190: handler(message) returns, lock.lock()
ProcCallReturns ==
    /\ p_pc = "call"
    /\ LET h == p_hs[p_idx]
           accepts == Accepts(handlers[h], messages[p_msg])
       IN  /\ ~(accepts /\ handlers[h].throws)
           /\ invoked' = IF accepts THEN Append(invoked, <<h, p_msg>>) ELSE invoked
           /\ received' = IF accepts THEN Append(received, TypedMsg(h, messages[p_msg]))
                          ELSE received
    /\ MutexFree
    /\ m_Mutex' = "proc"
    /\ p_owns' = TRUE
    /\ p_idx' = p_idx + 1
    /\ p_pc' = "scan"
    /\ UNCHANGED <<apVars, elAll, ltAll, unsubs, b_Running, b_StopRequested, m_Topics, m_Subscribers, stopping,
                   bStarts, p_left, p_topic, p_msg, p_hs, ub, messages, handlers,
                   pubRunning, fromHandler, delivered, subsAtPublish, knownAtPublish, clearedTopics>>

\* lines 187, 191-195: the user's handler throws; the exception leaves
\* genericHandler (which catches bad_any_cast only) and is caught in
\* ProcessMessages, after lock.lock() was skipped
ProcCallThrows ==
    /\ p_pc = "call"
    /\ LET h == p_hs[p_idx]
       IN  /\ Accepts(handlers[h], messages[p_msg])
           /\ handlers[h].throws
           /\ invoked' = Append(invoked, <<h, p_msg>>)
           /\ received' = Append(received, TypedMsg(h, messages[p_msg]))
    /\ p_idx' = p_idx + 1
    /\ p_pc' = "scan"
    /\ UNCHANGED <<apVars, elAll, ltAll, unsubs, b_Running, b_StopRequested, m_Topics, m_Subscribers, m_Mutex,
                   stopping, bStarts, p_owns, p_left, p_topic, p_msg, p_hs, ub,
                   messages, handlers, pubRunning, fromHandler, delivered, subsAtPublish, knownAtPublish,
                   clearedTopics>>

\* line 196: the range-for over the handler vector is over
ProcDone ==
    /\ p_pc = "scan"
    /\ p_msg # 0
    /\ p_idx > Len(p_hs)
    /\ delivered' = (p_msg :> p_hs) @@ delivered
    /\ p_msg' = 0
    /\ UNCHANGED <<apVars, elAll, ltAll, unsubs, b_Running, b_StopRequested, m_Topics, m_Subscribers, m_Mutex,
                   stopping, bStarts, p_pc, p_owns, p_left, p_topic, p_hs, p_idx, ub,
                   messages, handlers, pubRunning, fromHandler, invoked,
                   received, subsAtPublish, knownAtPublish, clearedTopics>>

\* lines 200, 150-165: the pass is over.  Stop requested: the thread ends and
\* ~unique_lock releases what it owns.  A queue is not empty: wait returns at
\* once and the next pass starts.  Otherwise the thread blocks in wait, which
\* releases the mutex; on a unique_lock that is not owned that is undefined.
ProcEndPass ==
    /\ p_pc = "scan"
    /\ p_msg = 0
    /\ QueueEmpty
    /\ p_left = {}
    /\ p_topic' = ""
    /\ IF b_StopRequested
       THEN /\ p_pc' = "exit"
            /\ m_Mutex' = IF p_owns THEN "free" ELSE m_Mutex
            /\ UNCHANGED <<p_left, ub>>
       ELSE IF WaitPredicate
            THEN /\ p_left' = DOMAIN m_Topics
                 /\ UNCHANGED <<p_pc, m_Mutex, ub>>
            ELSE /\ p_pc' = "wait"
                 /\ m_Mutex' = IF p_owns THEN "free" ELSE m_Mutex
                 /\ ub' = (ub \/ ~p_owns)
                 /\ UNCHANGED p_left
    /\ UNCHANGED <<apVars, elAll, ltAll, unsubs, b_Running, b_StopRequested, m_Topics, m_Subscribers, stopping,
                   bStarts, p_owns, p_msg, p_hs, p_idx, messages, handlers, brHist>>

\* undefined behaviour of the processor thread brings the process down
ProcCrash ==
    /\ ub
    /\ p_pc \in {"wait", "scan", "call"}
    /\ p_pc' = "crashed"
    /\ UNCHANGED <<apVars, elAll, ltAll, unsubs, b_Running, b_StopRequested, m_Topics, m_Subscribers, m_Mutex,
                   stopping, bStarts, p_owns, p_left, p_topic, p_msg, p_hs, p_idx, ub,
                   messages, handlers, brHist>>

BrokerNext ==
    \/ \E topic \in Topics, T \in Types, throws \in BOOLEAN : Subscribe(topic, T, throws)
    \/ \E topic \in Topics, T \in PubTypes, data \in Payloads : Publish(topic, T, data)
    \/ \E topic \in Topics, T \in Types \cup {"void"} : Unsubscribe(topic, T)
    \/ BrokerStart
    \/ BrokerStopRequest
    \/ BrokerStopJoin
    \/ ProcWake
    \/ \E t \in Topics : ProcNextTopic(t)
    \/ ProcPop
    \/ ProcUnlock
    \/ ProcUnlockThrows
    \/ ProcCallReturns
    \/ ProcCallThrows
    \/ ProcDone
    \/ ProcEndPass
    \/ ProcCrash

\* the broker with several publishes, also from handlers: payloads of one
\* type, no Unsubscribe
OrderNext ==
    \/ \E topic \in Topics, throws \in BOOLEAN : Subscribe(topic, "int", throws)
    \/ \E topic \in Topics, data \in Payloads : PublishNext(topic, data)
    \/ \E topic \in Topics, data \in Payloads : HandlerPublishes(topic, "int", data)
    \/ BrokerStart
    \/ BrokerStopRequest
    \/ BrokerStopJoin
    \/ ProcWake
    \/ \E t \in Topics : ProcNextTopic(t)
    \/ ProcPop
    \/ ProcUnlock
    \/ ProcUnlockThrows
    \/ ProcCallReturns
    \/ ProcCallThrows
    \/ ProcDone
    \/ ProcEndPass
    \/ ProcCrash

\* the broker with handlers that publish: payloads of one type, no Unsubscribe
ReentrantNext ==
    \/ \E topic \in Topics, throws \in BOOLEAN : Subscribe(topic, "int", throws)
    \/ \E topic \in Topics, data \in Payloads : Publish(topic, "int", data)
    \/ \E topic \in Topics, data \in Payloads : HandlerPublishes(topic, "int", data)
    \/ BrokerStart
    \/ BrokerStopRequest
    \/ BrokerStopJoin
    \/ ProcWake
    \/ \E t \in Topics : ProcNextTopic(t)
    \/ ProcPop
    \/ ProcUnlock
    \/ ProcUnlockThrows
    \/ ProcCallReturns
    \/ ProcCallThrows
    \/ ProcDone
    \/ ProcEndPass
    \/ ProcCrash

\* ------------------------------------------------------------ LayerTree
\* The ftl::TaskScheduler runs ThreadPoolSize threads, the main thread among
\* them, and owns FiberPoolSize fibers.  Every thread runs on a fiber of the
\* pool; a task runs on the fiber of the thread that took it.  A
\* WaitGroup::Wait on a counter that is not zero leaves the fiber on the
\* waiting list and moves the thread to a free fiber, for which it looks
\* until it finds one.  A fiber whose counter reached zero is resumed by any
\* thread that runs no task, whose own fiber returns to the pool.

TreeInit ==
    /\ m_RootNodes = << >>
    /\ m_Children = [n \in Nodes |-> << >>]
    /\ nNodes = 0
    /\ ticks = 0
    /\ timestep = 0
    /\ t_pc = [u \in Units |-> IF u = 0 THEN "driver" ELSE "idle"]
    /\ wg = [u \in Units |-> 0]
    /\ terminated = FALSE
    /\ updates = [n \in Nodes |-> 0]
    /\ got = [n \in Nodes |-> 0]
    /\ threw = 0
    /\ m_Name = [n \in Nodes |-> ""]
    /\ m_Layer = [n \in Nodes |-> FALSE]
    /\ attached = [n \in Nodes |-> 0]
    /\ detached = [n \in Nodes |-> 0]
    /\ lastWalk = [call |-> "none", threw |-> FALSE]
    /\ lastFind = [call |-> "none", name |-> "", node |-> 0, nodes |-> << >>]
    /\ trees = << << >> >>          \* LayerTreeBuilder(): m_Tree(make_shared<LayerTree>())
    /\ m_Tree = 1
    /\ m_Context = << >>
    /\ built = << >>

\* LayerTreeNode::HasChildren
HasChildren(n) == m_Children[n] # << >>

\* the node whose m_Children holds n; 0 for a root node, whose task counts
\* on the WaitGroup of UpdateRootNodesInParallel
Parent(n) ==
    IF \E q \in Nodes : \E i \in DOMAIN m_Children[q] : m_Children[q][i] = n
    THEN CHOOSE q \in Nodes : \E i \in DOMAIN m_Children[q] : m_Children[q][i] = n
    ELSE 0

\* the nodes of one for-loop that builds the tasks of AddTasks: one task per
\* element of m_Children (or of m_RootNodes)
Tasks_SkipLast(list) == {list[i] : i \in (DOMAIN list) \ {Len(list)}}
Tasks(list) == {list[i] : i \in DOMAIN list}

\* the threads that run the driver or a task; the others run the scheduler's
\* loop on an otherwise unused fiber
BusyThreads == Cardinality({u \in Units : t_pc[u] \in {"driver", "OnUpdate", "wait", "spin"}})
IdleThreads == ThreadPoolSize - BusyThreads

\* fibers that neither carry a thread nor sit on a waiting list
FreeFibers ==
    FiberPoolSize - ThreadPoolSize - Cardinality({u \in Units : t_pc[u] = "parked"})

\* LayerTree::CreateRootNode(layer, name)
CreateRootNode(layer, name) ==
    /\ ~terminated
    /\ t_pc[0] = "driver"
    /\ nNodes < MaxNodes
    /\ nNodes' = nNodes + 1
    /\ m_RootNodes' = Append(m_RootNodes, nNodes + 1)
    /\ m_Name' = [m_Name EXCEPT ![nNodes + 1] = name]
    /\ m_Layer' = [m_Layer EXCEPT ![nNodes + 1] = layer]
    /\ UNCHANGED <<apVars, elAll, brAll, ltHook, ltFind, lbVars, m_Children, ticks, timestep, t_pc, wg, terminated, ltHist>>

\* LayerTree::CreateChildNode(parentName, layer, childName), FindNode having
\* found the node `parent`
CreateChildNode(parent, layer, name) ==
    /\ ~terminated
    /\ t_pc[0] = "driver"
    /\ nNodes < MaxNodes
    /\ parent \in 1..nNodes
    /\ nNodes' = nNodes + 1
    /\ m_Children' = [m_Children EXCEPT ![parent] = Append(@, nNodes + 1)]
    /\ m_Name' = [m_Name EXCEPT ![nNodes + 1] = name]
    /\ m_Layer' = [m_Layer EXCEPT ![nNodes + 1] = layer]
    /\ UNCHANGED <<apVars, elAll, brAll, ltHook, ltFind, lbVars, m_RootNodes, ticks, timestep, t_pc, wg, terminated, ltHist>>

\* LayerTree::UpdateTree(timestep, scheduler) up to the wg.Wait(false) of
\* UpdateRootNodesInParallel; `scheduler` is TRUE iff the pointer is non-null
UpdateTree(ts, scheduler) ==
    /\ ~terminated
    /\ t_pc[0] = "driver"
    /\ ticks < MaxTicks
    /\ ticks' = ticks + 1
    /\ IF m_RootNodes = << >> \/ ~scheduler
       THEN UNCHANGED <<timestep, t_pc, wg, updates, got>>
       ELSE /\ timestep' = ts
            /\ t_pc' = [u \in Units |->
                          IF u = 0 THEN "wait"
                          ELSE IF u \in Tasks(m_RootNodes) THEN "queued" ELSE "idle"]
            /\ wg' = [u \in Units |->
                          IF u = 0 THEN Cardinality(Tasks(m_RootNodes)) ELSE 0]
            /\ updates' = [n \in Nodes |-> 0]
            /\ got' = [n \in Nodes |-> 0]
    /\ UNCHANGED <<apVars, elAll, brAll, ltNode, ltHook, ltFind, lbVars, m_RootNodes, m_Children, nNodes, terminated, threw>>

\* UpdateSubtree, lines 60-61: the node is updated first
UpdateSubtreeEntry_ChildrenFirst(n) ==
    [u \in Units |-> IF u = n THEN "OnUpdate"
                     ELSE IF u \in Tasks(m_Children[n]) THEN "queued" ELSE t_pc[u]]
UpdateSubtreeEntry(n) == [t_pc EXCEPT ![n] = "OnUpdate"]

\* a thread that runs no task takes any task of the scheduler's queues
Runnable_Serial(n) ==
    /\ t_pc[n] = "queued"
    /\ IdleThreads > 0
    /\ \A q \in Nodes : (q # n /\ Parent(q) = Parent(n)) => t_pc[q] \notin {"OnUpdate", "wait", "spin", "parked"}
Runnable(n) == t_pc[n] = "queued" /\ IdleThreads > 0

\* a thread takes the task of node n: the lambda calls
\* data->node->UpdateSubtree(data->timestep, data->scheduler), which calls
\* UpdateNode, which calls m_Layer->OnUpdate(timestep) if m_Layer is not null
StartTask(n) ==
    /\ ~terminated
    /\ n \in 1..nNodes
    /\ Runnable(n)
    /\ t_pc' = UpdateSubtreeEntry(n)
    /\ updates' = IF m_Layer[n] THEN [updates EXCEPT ![n] = @ + 1] ELSE updates
    /\ got' = IF m_Layer[n] THEN [got EXCEPT ![n] = timestep] ELSE got
    /\ UNCHANGED <<apVars, elAll, brAll, ltNode, ltHook, ltFind, lbVars, m_RootNodes, m_Children, nNodes, ticks, timestep, wg,
                   terminated, threw>>

\* the counter of the WaitGroup of unit u is zero
CounterDone_NoWait(u) == TRUE
CounterDone(u) == wg[u] = 0

\* UpdateSubtree of node u returns and so does its task, which decrements the
\* counter of the WaitGroup it was added with; for u = 0 UpdateTree returns
Finish(u) ==
    /\ t_pc' = [t_pc EXCEPT ![u] = IF u = 0 THEN "driver" ELSE "done"]
    /\ wg' = IF u = 0 THEN wg ELSE [wg EXCEPT ![Parent(u)] = @ - 1]

\* OnUpdate of node n returns; UpdateSubtree goes on: without children it
\* returns, with children UpdateChildrenInParallel adds one task per child
\* and reaches wg.Wait(false)
OnUpdateReturns(n) ==
    /\ ~terminated
    /\ t_pc[n] = "OnUpdate"
    /\ IF HasChildren(n)
       THEN /\ t_pc' = [u \in Units |->
                          IF u = n THEN "wait"
                          ELSE IF u \in Tasks(m_Children[n]) THEN "queued" ELSE t_pc[u]]
            /\ wg' = [wg EXCEPT ![n] = Cardinality(Tasks(m_Children[n]))]
       ELSE Finish(n)
    /\ UNCHANGED <<apVars, elAll, brAll, ltNode, ltHook, ltFind, lbVars, m_RootNodes, m_Children, nNodes, ticks, timestep,
                   terminated, ltHist>>

\* OnUpdate of node n throws: neither the task's lambda nor UpdateSubtree nor
\* the fiber's start function has a handler, so std::terminate is called
OnUpdateThrows(n) ==
    /\ ~terminated
    /\ t_pc[n] = "OnUpdate"
    /\ m_Layer[n]
    /\ terminated' = TRUE
    /\ threw' = n
    /\ UNCHANGED <<apVars, elAll, brAll, ltNode, ltHook, ltFind, lbVars, m_RootNodes, m_Children, nNodes, ticks, timestep, t_pc, wg,
                   updates, got>>

\* wg.Wait(false) finds the counter at zero and returns at once
WaitFastOut(u) ==
    /\ ~terminated
    /\ t_pc[u] = "wait"
    /\ CounterDone(u)
    /\ Finish(u)
    /\ UNCHANGED <<apVars, elAll, brAll, ltNode, ltHook, ltFind, lbVars, m_RootNodes, m_Children, nNodes, ticks, timestep,
                   terminated, ltHist>>

\* wg.Wait(false): the fiber goes to the waiting list and the thread
\* switches to a free fiber
WaitPark(u) ==
    /\ ~terminated
    /\ t_pc[u] = "wait"
    /\ ~CounterDone(u)
    /\ FreeFibers > 0
    /\ t_pc' = [t_pc EXCEPT ![u] = "parked"]
    /\ UNCHANGED <<apVars, elAll, brAll, ltNode, ltHook, ltFind, lbVars, m_RootNodes, m_Children, nNodes, ticks, timestep, wg,
                   terminated, ltHist>>

\* wg.Wait(false): the fiber is on the waiting list, no fiber is free and the
\* thread keeps looking for one
WaitSpin(u) ==
    /\ ~terminated
    /\ t_pc[u] = "wait"
    /\ ~CounterDone(u)
    /\ FreeFibers = 0
    /\ t_pc' = [t_pc EXCEPT ![u] = "spin"]
    /\ UNCHANGED <<apVars, elAll, brAll, ltNode, ltHook, ltFind, lbVars, m_RootNodes, m_Children, nNodes, ticks, timestep, wg,
                   terminated, ltHist>>

\* the thread that looks for a free fiber finds one and switches to it
SpinEnds(u) ==
    /\ ~terminated
    /\ t_pc[u] = "spin"
    /\ FreeFibers > 0
    /\ t_pc' = [t_pc EXCEPT ![u] = "parked"]
    /\ UNCHANGED <<apVars, elAll, brAll, ltNode, ltHook, ltFind, lbVars, m_RootNodes, m_Children, nNodes, ticks, timestep, wg,
                   terminated, ltHist>>

\* a thread that runs no task resumes the waiting fiber of unit u, whose
\* counter reached zero: wg.Wait returns
Resume(u) ==
    /\ ~terminated
    /\ t_pc[u] = "parked"
    /\ CounterDone(u)
    /\ IdleThreads > 0
    /\ Finish(u)
    /\ UNCHANGED <<apVars, elAll, brAll, ltNode, ltHook, ltFind, lbVars, m_RootNodes, m_Children, nNodes, ticks, timestep,
                   terminated, ltHist>>

\* OnAttachAll/OnDetachAll, lines 308-310 and 334-336: the children of the
\* node just visited are pushed on the stack, whose top is its last element
PushChildren_LayeredOnly(stack, n) == IF m_Layer[n] THEN stack \o m_Children[n] ELSE stack
PushChildren(stack, n) == stack \o m_Children[n]

\* the while loop of OnAttachAll/OnDetachAll, lines 298-311 and 324-337: pop
\* the top, call the hook of its layer if it has one, push its children.
\* `counts` are the hook calls so far; the hook of node `thrower` throws,
\* which ends the loop and the call
RECURSIVE WalkStack(_, _, _)
WalkStack(stack, counts, thrower) ==
    IF stack = << >>
    THEN [counts |-> counts, threw |-> FALSE]
    ELSE LET current == stack[Len(stack)]
             rest    == SubSeq(stack, 1, Len(stack) - 1)
             called  == IF m_Layer[current]
                        THEN [counts EXCEPT ![current] = @ + 1] ELSE counts
         IN  IF m_Layer[current] /\ current = thrower
             THEN [counts |-> called, threw |-> TRUE]
             ELSE WalkStack(PushChildren(rest, current), called, thrower)

\* LayerTree::OnAttachAll(): the stack starts with the root nodes
OnAttachAll(thrower) ==
    /\ ~terminated
    /\ t_pc[0] = "driver"
    /\ \E r \in {WalkStack(m_RootNodes, [n \in Nodes |-> 0], thrower)} :
           /\ attached' = r.counts
           /\ lastWalk' = [call |-> "attach", threw |-> r.threw]
    /\ UNCHANGED <<apVars, elAll, brAll, ltVars, ltHist, ltNode, ltFind, lbVars, detached>>

\* LayerTree::OnDetachAll()
OnDetachAll(thrower) ==
    /\ ~terminated
    /\ t_pc[0] = "driver"
    /\ \E r \in {WalkStack(m_RootNodes, [n \in Nodes |-> 0], thrower)} :
           /\ detached' = r.counts
           /\ lastWalk' = [call |-> "detach", threw |-> r.threw]
    /\ UNCHANGED <<apVars, elAll, brAll, ltVars, ltHist, ltNode, ltFind, lbVars, attached>>

\* the forest and its lifecycle walks, without ticks
ForestNext ==
    \/ \E layer \in BOOLEAN, name \in Names : CreateRootNode(layer, name)
    \/ \E parent \in Nodes, layer \in BOOLEAN, name \in Names :
           CreateChildNode(parent, layer, name)
    \/ \E thrower \in Units : OnAttachAll(thrower)
    \/ \E thrower \in Units : OnDetachAll(thrower)

\* the elements of m_RootNodes and of every m_Children
Links == Len(m_RootNodes) + SumTo([n \in Nodes |-> Len(m_Children[n])], MaxNodes)

\* std::find(list.begin(), list.end(), node) followed by erase(it): the list
\* without the first occurrence of node
RECURSIVE EraseFirst(_, _)
EraseFirst(list, node) ==
    IF list = << >> THEN << >>
    ELSE IF Head(list) = node THEN Tail(list)
    ELSE <<Head(list)>> \o EraseFirst(Tail(list), node)

\* calls on nodes that exist, made between two ticks
ShapeFrame ==
    /\ ~terminated
    /\ t_pc[0] = "driver"
    /\ UNCHANGED <<apVars, elAll, brAll, ltNode, ltHook, ltFind, lbVars, nNodes, ticks, timestep, t_pc,
                   wg, terminated, ltHist>>

\* LayerTreeNode::AddChild(child) on the node `parent`
AddChild(parent, child) ==
    /\ ShapeFrame
    /\ parent \in 1..nNodes
    /\ child \in 1..nNodes
    /\ Links < MaxLinks
    /\ m_Children' = [m_Children EXCEPT ![parent] = Append(@, child)]
    /\ UNCHANGED m_RootNodes

\* LayerTreeNode::RemoveChild(child) on the node `parent`
RemoveChild(parent, child) ==
    /\ ShapeFrame
    /\ parent \in 1..nNodes
    /\ child \in 1..nNodes
    /\ m_Children' = [m_Children EXCEPT ![parent] = EraseFirst(@, child)]
    /\ UNCHANGED m_RootNodes

\* LayerTree::AddRootNode(node)
AddRootNode(node) ==
    /\ ShapeFrame
    /\ node \in 1..nNodes
    /\ Links < MaxLinks
    /\ m_RootNodes' = Append(m_RootNodes, node)
    /\ UNCHANGED m_Children

\* LayerTree::RemoveRootNode(node)
RemoveRootNode(node) ==
    /\ ShapeFrame
    /\ node \in 1..nNodes
    /\ m_RootNodes' = EraseFirst(m_RootNodes, node)
    /\ UNCHANGED m_Children

\* FindNode(name) returns a node of that name: there is one below a root
Findable(n) ==
    LET RECURSIVE Under(_)
        Under(S) ==
            LET next == S \cup UNION {{m_Children[q][i] : i \in DOMAIN m_Children[q]} : q \in S}
            IN  IF next = S THEN S ELSE Under(next)
    IN  n \in Under({m_RootNodes[i] : i \in DOMAIN m_RootNodes})

\* the calls that change the shape of the tree
ShapeNext ==
    \/ Links < MaxLinks /\ CreateRootNode(TRUE, "a")
    \/ \E parent \in Nodes :
           Links < MaxLinks /\ Findable(parent) /\ CreateChildNode(parent, TRUE, "a")
    \/ \E parent, child \in Nodes : AddChild(parent, child)
    \/ \E parent, child \in Nodes : RemoveChild(parent, child)
    \/ \E node \in Nodes : AddRootNode(node)
    \/ \E node \in Nodes : RemoveRootNode(node)

\* LayerTree::FindNodeRecursive(name, current, results): the value of
\* `results` when the call returns
RECURSIVE FindNodeRecursive_PostOrder(_, _, _)
FindNodeRecursive_PostOrder(name, current, results) ==
    LET RECURSIVE Children(_, _)
        Children(i, res) ==
            IF i > Len(m_Children[current]) THEN res
            ELSE Children(i + 1, FindNodeRecursive_PostOrder(name, m_Children[current][i], res))
        below == Children(1, results)
    IN  IF m_Name[current] = name THEN Append(below, current) ELSE below
RECURSIVE FindNodeRecursive(_, _, _)
FindNodeRecursive(name, current, results) ==
    LET RECURSIVE Children(_, _)
        Children(i, res) ==
            IF i > Len(m_Children[current]) THEN res
            ELSE Children(i + 1, FindNodeRecursive(name, m_Children[current][i], res))
    IN  Children(1, IF m_Name[current] = name THEN Append(results, current) ELSE results)

\* the loop of LayerTree::FindNode over the root list `roots` from position
\* i: the first match of the first root that has one, 0 for nullptr
RECURSIVE FirstMatch(_, _, _)
FirstMatch(roots, name, i) ==
    IF i > Len(roots) THEN 0
    ELSE LET results == FindNodeRecursive(name, roots[i], << >>)
         IN  IF results # << >> THEN results[1] ELSE FirstMatch(roots, name, i + 1)

\* the loop of LayerTree::FindAllNodes over the root list `roots` from position i
RECURSIVE AllMatches(_, _, _, _)
AllMatches(roots, name, i, results) ==
    IF i > Len(roots) THEN results
    ELSE AllMatches(roots, name, i + 1, FindNodeRecursive(name, roots[i], results))

\* LayerTree::FindNode(name) const
FindNode(name) ==
    /\ lastFind' = [call |-> "FindNode", name |-> name,
                    node |-> FirstMatch(m_RootNodes, name, 1), nodes |-> << >>]
    /\ UNCHANGED <<apVars, elAll, brAll, ltVars, ltHist, ltNode, ltHook, lbVars>>

\* LayerTree::FindAllNodes(name) const
FindAllNodes(name) ==
    /\ lastFind' = [call |-> "FindAllNodes", name |-> name, node |-> 0,
                    nodes |-> AllMatches(m_RootNodes, name, 1, << >>)]
    /\ UNCHANGED <<apVars, elAll, brAll, ltVars, ltHist, ltNode, ltHook, lbVars>>

\* the forest and its lookups
FindNext ==
    \/ \E layer \in BOOLEAN, name \in Names : CreateRootNode(layer, name)
    \/ \E parent \in Nodes, layer \in BOOLEAN, name \in Names :
           CreateChildNode(parent, layer, name)
    \/ \E name \in LookupNames : FindNode(name)
    \/ \E name \in LookupNames : FindAllNodes(name)

\* ---- LayerTreeBuilder

\* LayerTreeBuilder::GetCurrentContext: m_Context.back(), 0 for nullptr
GetCurrentContext == IF m_Context = << >> THEN 0 ELSE m_Context[Len(m_Context)]

\* m_Context.clear()
Clear_Not(context) == context
Clear(context) == << >>

\* what no call on the builder touches
BuilderFrame ==
    UNCHANGED <<apVars, elAll, brAll, m_RootNodes, ticks, timestep, t_pc, wg, terminated, ltHist,
                ltHook, ltFind>>

\* LayerTreeBuilder::Root(layer, name): m_Tree->CreateRootNode, then the root
\* becomes the whole context
Root(layer, name) ==
    /\ nNodes < MaxNodes
    /\ nNodes' = nNodes + 1
    /\ trees' = [trees EXCEPT ![m_Tree] = Append(@, nNodes + 1)]
    /\ m_Name' = [m_Name EXCEPT ![nNodes + 1] = name]
    /\ m_Layer' = [m_Layer EXCEPT ![nNodes + 1] = layer]
    /\ m_Context' = Append(Clear(m_Context), nNodes + 1)
    /\ UNCHANGED <<m_Children, m_Tree, built>>
    /\ BuilderFrame

\* LayerTreeBuilder::Child(layer, name): without a current context nothing
\* happens
Child(layer, name) ==
    /\ IF GetCurrentContext # 0
       THEN /\ nNodes < MaxNodes
            /\ nNodes' = nNodes + 1
            /\ m_Children' = [m_Children EXCEPT ![GetCurrentContext] = Append(@, nNodes + 1)]
            /\ m_Name' = [m_Name EXCEPT ![nNodes + 1] = name]
            /\ m_Layer' = [m_Layer EXCEPT ![nNodes + 1] = layer]
            /\ m_Context' = Append(m_Context, nNodes + 1)
       ELSE UNCHANGED <<nNodes, m_Children, m_Name, m_Layer, m_Context>>
    /\ UNCHANGED <<trees, m_Tree, built>>
    /\ BuilderFrame

\* LayerTreeBuilder::Back()
Back ==
    /\ m_Context' = IF Len(m_Context) > 1
                    THEN SubSeq(m_Context, 1, Len(m_Context) - 1) ELSE m_Context
    /\ UNCHANGED <<nNodes, m_Children, m_Name, m_Layer, trees, m_Tree, built>>
    /\ BuilderFrame

\* LayerTreeBuilder::ToRoot()
ToRoot ==
    /\ m_Context' = IF m_Context # << >>
                    THEN Append(Clear(m_Context), m_Context[1]) ELSE m_Context
    /\ UNCHANGED <<nNodes, m_Children, m_Name, m_Layer, trees, m_Tree, built>>
    /\ BuilderFrame

\* LayerTreeBuilder::To(name): m_Tree->FindNode(name)
To(name) ==
    /\ \E node \in {FirstMatch(trees[m_Tree], name, 1)} :
           m_Context' = IF node # 0 THEN Append(Clear(m_Context), node) ELSE m_Context
    /\ UNCHANGED <<nNodes, m_Children, m_Name, m_Layer, trees, m_Tree, built>>
    /\ BuilderFrame

\* LayerTreeBuilder::Build(): the result is the object m_Tree pointed to
Build ==
    /\ Len(built) < MaxBuilds
    /\ built' = Append(built, [tree |-> m_Tree, roots |-> trees[m_Tree],
                               children |-> m_Children, names |-> m_Name,
                               layers |-> m_Layer])
    /\ trees' = Append(trees, << >>)            \* make_shared<LayerTree>()
    /\ m_Tree' = Len(trees) + 1
    /\ m_Context' = Clear(m_Context)
    /\ UNCHANGED <<nNodes, m_Children, m_Name, m_Layer>>
    /\ BuilderFrame

BuilderNext ==
    \/ \E layer \in BOOLEAN, name \in Names : Root(layer, name)
    \/ \E layer \in BOOLEAN, name \in Names : Child(layer, name)
    \/ Back
    \/ ToRoot
    \/ \E name \in LookupNames : To(name)
    \/ Build

\* the steps of a tick in progress
TickStep ==
    \/ \E n \in Nodes : StartTask(n)
    \/ \E n \in Nodes : OnUpdateReturns(n)
    \/ \E n \in Nodes : OnUpdateThrows(n)
    \/ \E u \in Units : WaitFastOut(u)
    \/ \E u \in Units : WaitPark(u)
    \/ \E u \in Units : WaitSpin(u)
    \/ \E u \in Units : SpinEnds(u)
    \/ \E u \in Units : Resume(u)

TreeNext ==
    \/ \E layer \in BOOLEAN : CreateRootNode(layer, "a")
    \/ \E parent \in Nodes, layer \in BOOLEAN : CreateChildNode(parent, layer, "a")
    \/ \E ts \in Timesteps, scheduler \in BOOLEAN : UpdateTree(ts, scheduler)
    \/ \E n \in Nodes : StartTask(n)
    \/ \E n \in Nodes : OnUpdateReturns(n)
    \/ \E n \in Nodes : OnUpdateThrows(n)
    \/ \E u \in Units : WaitFastOut(u)
    \/ \E u \in Units : WaitPark(u)
    \/ \E u \in Units : WaitSpin(u)
    \/ \E u \in Units : SpinEnds(u)
    \/ \E u \in Units : Resume(u)

\* ---------------------------------------------------------- specifications

\* ---- the driving loop and the registration, statement by statement

\* SetTimeout/SetInterval up to the end of the lock_guard block (lines 587-610,
\* 617-640): GenerateId, read the clock, build the entry, push it and index it
\* under m_TimerMutex.  EnsureEventLoopRunning has yet to be called.
PushTimer(ms, interval, repeat) ==
    LET g  == GenerateId(m_NextId)
        id == g[1]
    IN  /\ m_TimerMutex = "free"
        /\ m_TaskScheduler
        /\ m_NextId' = g[2]
        /\ timers' = (id :> FiberTimer(clock + ms, interval, repeat)) @@ timers
        /\ m_TimerQueue' = m_TimerQueue \cup {id}
        /\ m_TimerMap' = m_TimerMap \cup {id}
        /\ ensuring' = ensuring \cup {id}
        /\ entries' = [entries EXCEPT ![id] = @ + 1]
        /\ issued' = Append(issued, id)
        /\ regTime' = [regTime EXCEPT ![id] = clock]
        /\ regMs' = [regMs EXCEPT ![id] = ms]
        /\ UNCHANGED <<apVars, brAll, ltAll, lastPass, running, fibers, m_TimerMutex, loopTasks, thrownAt, clock,
                       m_TaskScheduler, m_Running, starts, handed, executed, cleared,
                       clearedBeforeDue>>

\* the call of EnsureEventLoopRunning that ends SetTimeout/SetInterval
\* (lines 612, 642)
EnsureStep(id) ==
    /\ id \in ensuring
    /\ ensuring' = ensuring \ {id}
    /\ loopTasks' = EnsureEventLoopRunning(loopTasks)
    /\ UNCHANGED <<apVars, brAll, ltAll, elObs, fibers, m_TimerMutex, clock, m_TaskScheduler, m_Running,
                   m_NextId, timers, m_TimerQueue, m_TimerMap, starts, handed, executed,
                   elHist>>

Fiber(at, next) == [at |-> at, next |-> next]

\* EventLoopFiber line 697: a worker takes the task and runs ProcessTimerEvents
FiberPoll(t, now) ==
    /\ BagIn(t, loopTasks)
    /\ now \in t..clock
    /\ m_TimerMutex = "free"
    /\ ~Diverges(now)
    /\ loopTasks' = BagDel(loopTasks, t)
    /\ fibers' = BagAdd(fibers, Fiber("polled", 0))
    /\ \E r \in {ProcessTimerEvents(now)} :
           /\ timers' = r.tm
           /\ m_TimerQueue' = r.q
           /\ m_TimerMap' = r.map
           /\ handed' = r.handed
           /\ lastPass' = r.order
           /\ entries' = r.entries
    /\ UNCHANGED <<apVars, brAll, ltAll, running, ensuring, m_TimerMutex, clock, m_TaskScheduler, m_Running,
                   m_NextId, starts, executed, elHist>>

\* EventLoopFiber line 699: if (m_Running.load()); a stopped registry ends
\* the iteration
FiberReadRunning ==
    /\ BagIn(Fiber("polled", 0), fibers)
    /\ fibers' = IF m_Running
                 THEN BagAdd(BagDel(fibers, Fiber("polled", 0)), Fiber("running", 0))
                 ELSE BagDel(fibers, Fiber("polled", 0))
    /\ UNCHANGED <<apVars, brAll, ltAll, elObs, elVars, elHist, ensuring>>

\* EventLoopFiber lines 701-710: under m_TimerMutex, hasMoreTimers =
\* !m_TimerQueue.empty() and nextTimerTime = top().nextExecution; an empty
\* queue ends the iteration
FiberCheckQueue ==
    /\ BagIn(Fiber("running", 0), fibers)
    /\ m_TimerMutex = "free"
    /\ fibers' = IF m_TimerQueue # {}
                 THEN BagAdd(BagDel(fibers, Fiber("running", 0)),
                             Fiber("hasMoreTimers",
                                   timers[Top(timers, m_TimerQueue)].nextExecution))
                 ELSE BagDel(fibers, Fiber("running", 0))
    /\ UNCHANGED <<apVars, brAll, ltAll, elObs, elVars, elHist, ensuring>>

\* EventLoopFiber lines 712-752: read the clock, compute the capped delay and
\* AddTask(delayedTask), which sleeps and adds the next iteration
FiberReschedule(next) ==
    /\ BagIn(Fiber("hasMoreTimers", next), fibers)
    /\ fibers' = BagDel(fibers, Fiber("hasMoreTimers", next))
    /\ loopTasks' = BagAdd(loopTasks, clock + SleepDelay(next, clock))
    /\ UNCHANGED <<apVars, brAll, ltAll, elObs, ensuring, m_TimerMutex, clock, m_TaskScheduler, m_Running,
                   m_NextId, timers, m_TimerQueue, m_TimerMap, starts, handed, executed,
                   elHist>>

\* the driving loop with every interleaving of an iteration's statements and a
\* registration's
ELFineNext ==
    \/ Tick
    \/ EventLoopInit
    \/ Start
    \/ Stop
    \/ \E ms \in Delays : m_NextId <= LiveMaxId /\ PushTimer(ms, 0, FALSE)
    \/ \E ms \in Periods : m_NextId <= LiveMaxId /\ PushTimer(ms, ms, TRUE)
    \/ \E id \in Ids : EnsureStep(id)
    \/ \E id \in AnyId : ClearInterval(id)
    \/ \E t \in 0..MaxTime, now \in 0..MaxTime : FiberPoll(t, now)
    \/ FiberReadRunning
    \/ FiberCheckQueue
    \/ \E next \in 0..(MaxTime + 1) : FiberReschedule(next)

\* ---- Application::Run, the driver (the variant that owns an m_LayerTree)

AttachedAll == lastWalk = [call |-> "attach", threw |-> FALSE]
DetachedAll == lastWalk = [call |-> "detach", threw |-> FALSE]

\* Run is in its while (m_Running) loop: Init() and the broker's Start() are
\* behind it, OnDetachAll is not
InLoop == ~terminated /\ AttachedAll /\ bStarts = 1

\* the tree is built before Run is called
BuildTree ==
    /\ ~m_TaskScheduler
    /\ \/ \E layer \in BOOLEAN : CreateRootNode(layer, "a")
       \/ \E parent \in Nodes, layer \in BOOLEAN : CreateChildNode(parent, layer, "a")

\* Run: m_EventLoop.Init(&m_TaskScheduler)
Run_EventLoopInit == lastWalk.call = "none" /\ EventLoopInit

\* Run: m_EventLoop.Start()
Run_EventLoopStart == lastWalk.call = "none" /\ Start

\* Run: Init(), which ends with m_LayerTree.OnAttachAll()
Run_Init(thrower) == starts = 1 /\ lastWalk.call = "none" /\ OnAttachAll(thrower)

\* Run: m_PubSubBroker->Start()
Run_BrokerStart == ~terminated /\ AttachedAll /\ bStarts = 0 /\ BrokerStart

\* Run, one trip of the loop: m_LayerTree.UpdateTree(m_TimeStep, &m_TaskScheduler)
\* unless the tree is empty
Run_UpdateTree(ts) == InLoop /\ m_RootNodes # << >> /\ UpdateTree(ts, TRUE)

\* Run: Close() has set m_Running to false, the loop ends and
\* m_LayerTree.OnDetachAll() is called
Run_OnDetachAll(thrower) == InLoop /\ OnDetachAll(thrower)

\* Run: m_EventLoop.Stop()
Run_EventLoopStop == DetachedAll /\ Stop

\* Run: m_PubSubBroker->Stop()
Run_BrokerStop == DetachedAll /\ ~m_Running /\ IsRunning /\ BrokerStopRequest

\* Run has been called
Begun == app_Running \/ closedAt >= 0

\* Run has returned: the broker's Stop() is behind it
Returned == Begun /\ bStarts = 1 /\ ~b_Running /\ ~stopping

\* UpdateTree has been called and has yet to return
TickInProgress == t_pc[0] # "driver"

\* Run, line 146: m_Running = true
Run_Begin ==
    /\ ~Begun
    /\ ~m_TaskScheduler
    /\ app_Running' = TRUE
    /\ UNCHANGED <<elAll, brAll, ltAll, a_tested, a_seen, closedAt>>

\* Run, line 167: the value of m_Running that `while (m_Running)` reads
LoopCondition_Always == TRUE
LoopCondition == app_Running

\* Run, line 167: the loop tests m_Running, before the first trip and after
\* each trip; with an empty tree a trip calls nothing and the test follows
\* the last one
Run_LoopTest ==
    /\ InLoop
    /\ ~TickInProgress
    /\ a_seen
    /\ a_tested # ticks \/ m_RootNodes = << >>
    /\ ticks < MaxTicks \/ ~app_Running
    /\ a_tested' = ticks
    /\ a_seen' = LoopCondition
    /\ UNCHANGED <<elAll, brAll, ltAll, app_Running, closedAt>>

\* Run, lines 169-176: the test read true and the trip calls UpdateTree
Run_Tick(ts) == a_tested = ticks /\ a_seen /\ Run_UpdateTree(ts)

\* Run, line 191: the test read false and the loop is left
Run_Leave(thrower) == ~a_seen /\ Run_OnDetachAll(thrower)

\* Application::Close, called by a layer, a timer callback or a handler of a
\* subscriber while Run is executing
Close ==
    /\ app_Running
    /\ ~terminated
    /\ app_Running' = FALSE
    /\ closedAt' = ticks
    /\ UNCHANGED <<elAll, brAll, ltAll, a_tested, a_seen>>

\* Run with its loop condition, and Close; the timestep of a tick plays no
\* part in the loop
CloseNext ==
    \/ BuildTree
    \/ Run_Begin
    \/ Begun /\ Run_EventLoopInit
    \/ Begun /\ Run_EventLoopStart
    \/ \E thrower \in Units : Begun /\ Run_Init(thrower)
    \/ Run_BrokerStart
    \/ Run_LoopTest
    \/ Run_Tick(1)
    \/ \E thrower \in Units : Run_Leave(thrower)
    \/ Run_EventLoopStop
    \/ Run_BrokerStop
    \/ BrokerStopJoin
    \/ ~terminated /\ ProcWake
    \/ TickStep
    \/ Close

RunNext ==
    \/ BuildTree
    \/ Run_EventLoopInit
    \/ Run_EventLoopStart
    \/ \E thrower \in Units : Run_Init(thrower)
    \/ Run_BrokerStart
    \/ \E ts \in Timesteps : Run_UpdateTree(ts)
    \/ \E thrower \in Units : Run_OnDetachAll(thrower)
    \/ Run_EventLoopStop
    \/ Run_BrokerStop
    \/ BrokerStopJoin
    \/ ~terminated /\ ProcWake
    \/ ~terminated /\ EventLoopFiber(0, 0)
    \/ TickStep

\* the registry with SetInterval arguments of every sign
ELNextAnyPeriod ==
    \/ ELNext
    \/ \E ms \in NonPositivePeriods : SetInterval(ms)
    \/ \E t \in 0..MaxTime, now \in 0..MaxTime : PollDiverges(t, now)

\* the registry with SetTimeout arguments of every sign
ELNextAnyDelay ==
    \/ ELNext
    \/ \E ms \in NonPositiveDelays : SetTimeout(ms)

\* Application::Application: m_Running(false)
AppInit ==
    /\ app_Running = FALSE
    /\ a_tested = -1
    /\ a_seen = TRUE
    /\ closedAt = -1

Init == ELInit /\ BrokerInit /\ TreeInit /\ AppInit
Next == ELNextAnyPeriod \/ ELNextAnyDelay \/ ELOverlapNext \/ ELFineNext \/ BrokerNext \/ ReentrantNext \/ OrderNext \/ TreeNext \/ ForestNext \/ ShapeNext \/ RunNext \/ CloseNext
           \/ FindNext \/ BuilderNext
Spec == Init /\ [][Next]_vars

TreeSpec == Init /\ [][TreeNext]_vars

ForestSpec == Init /\ [][ForestNext]_vars

ShapeSpec == Init /\ [][ShapeNext]_vars

RunSpec == Init /\ [][RunNext]_vars

CloseSpec == Init /\ [][CloseNext]_vars

\* the thread that called Run, the workers of the scheduler and the
\* processor thread of the broker all keep running
CloseFairSpec ==
    /\ CloseSpec
    /\ WF_vars(Begun /\ Run_EventLoopInit)
    /\ WF_vars(Begun /\ Run_EventLoopStart)
    /\ WF_vars(\E thrower \in Units : Begun /\ Run_Init(thrower))
    /\ WF_vars(Run_BrokerStart)
    /\ WF_vars(Run_LoopTest)
    /\ WF_vars(Run_Tick(1))
    /\ WF_vars(\E thrower \in Units : Run_Leave(thrower))
    /\ WF_vars(Run_EventLoopStop)
    /\ WF_vars(Run_BrokerStop)
    /\ WF_vars(BrokerStopJoin)
    /\ WF_vars(~terminated /\ ProcWake)
    /\ WF_vars(TickStep)

FindSpec == Init /\ [][FindNext]_vars

BuilderSpec == Init /\ [][BuilderNext]_vars

BrokerSpec == Init /\ [][BrokerNext]_vars

ReentrantSpec == Init /\ [][ReentrantNext]_vars

OrderSpec == Init /\ [][OrderNext]_vars

TimerSpec == Init /\ [][ELNext]_vars

AnyPeriodSpec == Init /\ [][ELNextAnyPeriod]_vars

AnyDelaySpec == Init /\ [][ELNextAnyDelay]_vars

OverlapSpec == Init /\ [][ELOverlapNext]_vars

\* The driving loop alone: the actions that read or write the queue, the map,
\* the running flag or the scheduled iterations.  Running a callback copy and
\* SetImmediate touch none of these.
ELLoopNext ==
    \/ Tick
    \/ EventLoopInit
    \/ Start
    \/ Stop
    \/ \E ms \in Delays : m_NextId <= LiveMaxId /\ SetTimeout(ms)
    \/ \E ms \in Periods : m_NextId <= LiveMaxId /\ SetInterval(ms)
    \/ \E id \in AnyId : ClearInterval(id)
    \/ \E t \in 0..MaxTime, now \in 0..MaxTime : EventLoopFiber(t, now)

\* the clock advances and the scheduler runs every task that was added
TimerFairness ==
    /\ WF_vars(Tick)
    /\ \A t \in 0..MaxTime : WF_vars(\E now \in 0..MaxTime : EventLoopFiber(t, now))

TimerFairSpec == Init /\ [][ELLoopNext]_vars /\ TimerFairness

\* the clock advances, every call that has begun returns and the scheduler
\* runs every task that was added, statement by statement
FineFairness ==
    /\ WF_vars(Tick)
    /\ WF_vars(\E id \in Ids : EnsureStep(id))
    /\ \A t \in 0..MaxTime : WF_vars(\E now \in 0..MaxTime : FiberPoll(t, now))
    /\ WF_vars(FiberReadRunning)
    /\ WF_vars(FiberCheckQueue)
    /\ WF_vars(\E next \in 0..(MaxTime + 1) : FiberReschedule(next))

FineFairSpec == Init /\ [][ELFineNext]_vars /\ FineFairness

\* ----------------------------------------------------------------- claims

\* the message ids that wait in a queue of m_Topics
Queued == {m \in DOMAIN messages :
              \E t \in DOMAIN m_Topics : \E k \in DOMAIN m_Topics[t] : m_Topics[t][k] = m}

\* the user's handler h was invoked with message m
Invoked(h, m) == \E k \in DOMAIN invoked : invoked[k] = <<h, m>>

OneShots  == {id \in DOMAIN timers : ~timers[id].repeat}
Periodics == {id \in DOMAIN timers : timers[id].repeat}

\* the step is an iteration of the driving loop whose `now` is at least d
PolledAtOrAfter(d) ==
    \E t \in 0..MaxTime, now \in 0..MaxTime : EventLoopFiber(t, now) /\ now >= d

\* C1: a SetTimeout(cb, delay) with delay >= 0 that is never cancelled, on a
\* running registry: cb is handed to the scheduler at most once, only by a
\* poll whose `now` is >= registration time + delay, and it is handed over
\* eventually.
C1_TimeoutFiresExactlyOnce ==
    /\ [][\A id \in OneShots :
            /\ handed'[id] <= 1
            /\ handed'[id] > handed[id] => PolledAtOrAfter(regTime[id] + regMs[id])]_vars
    /\ \A id \in Ids :
          (id \in OneShots /\ regTime[id] + regMs[id] <= MaxTime)
             ~> (handed[id] = 1 \/ cleared[id] \/ ~m_Running)

C1_Witness ==
    \E id \in OneShots :
        /\ handed[id] = 1 /\ ~cleared[id] /\ regMs[id] > 0
        /\ id \notin m_TimerQueue /\ id \notin m_TimerMap

\* C2: a re-armed periodic timer is due one period after its previous
\* due-time, so that its n-th due-time is registration time + n * period.
C2_RearmFromPreviousDue ==
    \A id \in Periodics :
        timers[id].nextExecution = regTime[id] + (handed[id] + 1) * timers[id].interval

\* C3: a SetInterval(cb, period) with period > 0: the first hand-off is by a
\* poll whose `now` is >= registration time + period, no hand-off is by a poll
\* whose `now` is before the entry's due-time, a fired entry that is not
\* cancelled is back in the queue and the map with a later due-time, and while
\* the registry runs and the id is not cancelled it fires again.
C3_IntervalFiresAgain ==
    /\ [][\A id \in Periodics :
            handed'[id] > handed[id] =>
                /\ PolledAtOrAfter(timers[id].nextExecution)
                /\ handed[id] = 0 => PolledAtOrAfter(regTime[id] + regMs[id])
                /\ id \in m_TimerQueue' /\ id \in m_TimerMap'
                /\ timers'[id].nextExecution > timers[id].nextExecution]_vars
    /\ \A id \in Ids : \A n \in 0..MaxTime :
          (id \in Periodics /\ handed[id] = n /\ timers[id].nextExecution <= MaxTime)
             ~> (handed[id] > n \/ cleared[id] \/ ~m_Running)

C3_Witness ==
    \E id \in Periodics :
        /\ handed[id] >= 2 /\ ~cleared[id] /\ id \in m_TimerQueue

\* C4: when ClearInterval(id) / ClearTimeout(id) returns before the timer's
\* due-time, the callback is not handed to the scheduler from then on, and a
\* timer that had not fired never runs.
C4_ClearBeforeDueNeverFires ==
    /\ [](\A id \in Ids : clearedBeforeDue[id] /\ handed[id] = 0 => executed[id] = 0)
    /\ [][\A id \in Ids : clearedBeforeDue[id] => handed'[id] = handed[id]]_vars

C4_Witness ==
    \E id \in DOMAIN timers :
        /\ clearedBeforeDue[id] /\ handed[id] = 0
        /\ timers[id].nextExecution <= clock /\ id \notin m_TimerQueue

\* C5: after ClearInterval(id) / ClearTimeout(id) returned for a pending id, the
\* registry hands no further copy of its callback to the scheduler and does not
\* put the entry back into the queue; the copies that run are copies handed
\* over before.
C5_NoDispatchAfterClear ==
    /\ [](\A id \in Ids : executed[id] <= handed[id])
    /\ [][\A id \in Ids : cleared[id] =>
            /\ handed'[id] = handed[id]
            /\ id \notin m_TimerQueue => id \notin m_TimerQueue']_vars

C5_Witness ==
    \E id \in Periodics :
        /\ cleared[id] /\ handed[id] >= 1 /\ executed[id] = handed[id]
        /\ id \notin m_TimerQueue

\* C6: ClearInterval / ClearTimeout of an id that is not in the map (never
\* issued, already cancelled, or a one-shot that fired) changes nothing, and
\* after any ClearInterval(id) the id is not in the map, so that a second call
\* is such a no-op.
C6_ClearUnknownIsNoOp ==
    [][\A id \in AnyId :
         ClearTimeout(id) =>
             /\ id \notin m_TimerMap => UNCHANGED vars
             /\ id \notin m_TimerMap']_vars

C6_Witness ==
    \E i, k \in DOMAIN timers :
        /\ i \notin m_TimerMap
        /\ cleared[i] \/ (i \in OneShots /\ handed[i] = 1)
        /\ k \in m_TimerMap /\ ~timers[k].cancelled

\* C7: the ids returned by SetTimeout, SetInterval and SetImmediate are
\* strictly increasing in issue order, hence pairwise distinct.
C7_IdsStrictlyIncreasing ==
    \A k \in 1..(Len(issued) - 1) : issued[k] < issued[k + 1]

C7_Witness ==
    /\ Len(issued) >= 2
    /\ \E id \in DOMAIN timers : id \in m_TimerQueue
    /\ \E k \in 1..Len(issued) : issued[k] \notin DOMAIN timers

\* C8: a publish of payload type A on a topic invokes only handlers that were
\* subscribed to that topic for exactly the type A: never a handler of the
\* same topic and another type, never a handler of another topic.
C8_OnlyMatchingHandlers ==
    \A k \in DOMAIN invoked :
        LET h == handlers[invoked[k][1]]
            m == messages[invoked[k][2]]
        IN  h.topic = m.topic /\ h.type = m.type
C8_Witness ==
    \E m \in DOMAIN delivered, h1 \in DOMAIN handlers, h2 \in DOMAIN handlers :
        /\ Invoked(h1, m)
        /\ ~Invoked(h2, m)
        /\ handlers[h2].topic = messages[m].topic
        /\ handlers[h2].type # messages[m].type
        /\ \E k \in DOMAIN FindHandlers(m_Subscribers, handlers[h2].topic,
                                         TypeName(handlers[h2].type)) :
               FindHandlers(m_Subscribers, handlers[h2].topic,
                            TypeName(handlers[h2].type))[k] = h2

\* C9: a handler that throws does not prevent the delivery of the same
\* message to the other subscribers: once the delivery of a message is over,
\* every handler of the vector it went through that accepts the message's
\* type was invoked with it.
C9_ThrowDoesNotBlockOthers ==
    \A m \in DOMAIN delivered :
        \A k \in DOMAIN delivered[m] :
            Accepts(handlers[delivered[m][k]], messages[m]) => Invoked(delivered[m][k], m)

\* C10: a message published while the broker is not running is dropped: it is
\* not queued and no handler is ever invoked with it, a later Start included.
C10_PublishWhileStoppedIsDropped ==
    \A m \in DOMAIN messages :
        ~pubRunning[m] => (m \notin Queued /\ \A h \in DOMAIN handlers : ~Invoked(h, m))

\* handler h is in the vector of its (topic, type name) now
StillSubscribed(h) ==
    \E k \in DOMAIN FindHandlers(m_Subscribers, handlers[h].topic,
                                 TypeName(handlers[h].type)) :
        FindHandlers(m_Subscribers, handlers[h].topic, TypeName(handlers[h].type))[k] = h

\* the number of times the user's handler h was invoked with message m
TimesInvoked(h, m) == Cardinality({k \in DOMAIN invoked : invoked[k] = <<h, m>>})

\* C11: once the delivery of a message published while the broker runs is over, every handler that
\* was subscribed to its (topic, T) at the publish and is still subscribed was
\* invoked with it exactly once; every invocation passes the payload and the
\* topic of the publish; and no handler is invoked more often than there are
\* publishes to its (topic, T).
C11_EveryPublishDeliveredOnce ==
    /\ \A m \in DOMAIN delivered :
           pubRunning[m] =>
               \A h \in subsAtPublish[m] : StillSubscribed(h) => TimesInvoked(h, m) = 1
    /\ \A k \in DOMAIN invoked :
           /\ received[k].handler = invoked[k][1]
           /\ received[k].payload = messages[invoked[k][2]].data
           /\ received[k].topic = messages[invoked[k][2]].topic
    /\ \A h \in DOMAIN handlers :
           Cardinality({k \in DOMAIN invoked : invoked[k][1] = h})
              <= Cardinality({m \in DOMAIN messages :
                                 /\ messages[m].topic = handlers[h].topic
                                 /\ messages[m].type = handlers[h].type})

\* handler h was made by a Subscribe<T>(topic, ...) of this pair
OfPair(h, topic, T) == handlers[h].topic = topic /\ handlers[h].type = T

\* C12: an Unsubscribe(topic, T) with a type removes the handlers of the pair
\* (topic, T) and leaves every handler of every other pair (topic', T')
\* subscribed; a handler that was removed before a publish is never invoked
\* with that message.
C12_UnsubscribeRemovesExactlyThePair ==
    [][/\ \A topic \in Topics, T \in Types :
              Unsubscribe(topic, T) =>
                  \A h \in DOMAIN handlers :
                      IF OfPair(h, topic, T)
                      THEN ~StillSubscribed(h)'
                      ELSE StillSubscribed(h)' = StillSubscribed(h)
       /\ \A k \in DOMAIN invoked' :
              invoked'[k][1] <= knownAtPublish'[invoked'[k][2]]
                  => invoked'[k][1] \in subsAtPublish'[invoked'[k][2]]]_vars

\* C13: an Unsubscribe(topic) without a type leaves no handler of the topic
\* subscribed, whatever its payload type, and leaves every handler of every
\* other topic subscribed; when the topic has no subscribers, no handler
\* vector, no queue and nothing of the processing changes.
C13_UnsubscribeTopicClearsTopicOnly ==
    [][\A topic \in Topics :
          Unsubscribe(topic, "void") =>
              /\ \A h \in DOMAIN handlers :
                     IF handlers[h].topic = topic
                     THEN ~StillSubscribed(h)'
                     ELSE StillSubscribed(h)' = StillSubscribed(h)
              /\ (\A h \in DOMAIN handlers :
                      handlers[h].topic = topic => ~StillSubscribed(h))
                  => /\ \A t \in Topics, T \in Types :
                            FindHandlers(m_Subscribers', t, TypeName(T))
                               = FindHandlers(m_Subscribers, t, TypeName(T))
                     /\ UNCHANGED <<m_Topics, b_Running, b_StopRequested, m_Mutex,
                                    p_pc, p_owns, p_left, p_topic, p_msg, p_hs, p_idx,
                                    messages, handlers, invoked, received>>]_vars

C13_Witness ==
    \E h1 \in DOMAIN handlers, h2 \in DOMAIN handlers :
        /\ handlers[h1].topic \in clearedTopics
        /\ ~StillSubscribed(h1)
        /\ handlers[h2].topic \notin clearedTopics
        /\ StillSubscribed(h2)

\* the nodes on the path from the parent of n to its root
RECURSIVE Ancestors(_)
Ancestors(n) == IF Parent(n) = 0 THEN {} ELSE {Parent(n)} \cup Ancestors(Parent(n))

\* two nodes submitted by the same AddTasks call: children of one node, or
\* both root nodes
Siblings(a, b) == a # b /\ a \in 1..nNodes /\ b \in 1..nNodes /\ Parent(a) = Parent(b)

\* UpdateTree returns in this step
UpdateTreeReturns == t_pc[0] \in {"wait", "parked"} /\ t_pc'[0] = "driver"

\* C14: within one tick the OnUpdate of no node's layer is invoked twice, and
\* when UpdateTree returns the OnUpdate of every node of the forest that has
\* a layer has been invoked exactly once, with the timestep of this call, and
\* the subtree update of every node has completed.
C14_EveryNodeUpdatedOnce ==
    [][/\ \A n \in Nodes : updates'[n] <= 1
       /\ UpdateTreeReturns =>
              \A n \in 1..nNodes :
                  /\ m_Layer[n] => updates'[n] = 1 /\ got'[n] = timestep
                  /\ ~m_Layer[n] => updates'[n] = 0
                  /\ t_pc'[n] = "done"]_vars

C14_Witness ==
    /\ t_pc[0] = "driver"
    /\ ticks >= 1
    /\ nNodes >= 3
    /\ Len(m_RootNodes) >= 2
    /\ \E n \in 1..nNodes : HasChildren(n)
    /\ \A n \in 1..nNodes : m_Layer[n] /\ updates[n] = 1 /\ got[n] = timestep /\ t_pc[n] = "done"

\* C15: the UpdateSubtree of a node returns only in a state in which the
\* UpdateSubtree of every one of its children has returned.
C15_ParentReturnsAfterChildren ==
    [][\A n \in 1..nNodes :
          (t_pc[n] # "done" /\ t_pc'[n] = "done")
              => \A i \in DOMAIN m_Children[n] : t_pc[m_Children[n][i]] = "done"]_vars

C15_Witness ==
    \E n \in 1..nNodes :
        /\ Len(m_Children[n]) >= 2
        /\ t_pc[n] = "done"
        /\ \A i \in DOMAIN m_Children[n] : t_pc[m_Children[n][i]] = "done"

\* C16: the OnUpdate of a node starts only when the OnUpdate of each of its
\* ancestors that has a layer has been invoked in this tick and has returned.
C16_NodeBeforeDescendants ==
    [][\A n \in 1..nNodes :
          (t_pc[n] # "OnUpdate" /\ t_pc'[n] = "OnUpdate")
              => \A a \in Ancestors(n) :
                     /\ m_Layer[a] => updates[a] = 1
                     /\ t_pc[a] \in {"wait", "spin", "parked"}]_vars

C16_Witness ==
    \E n \in 1..nNodes :
        /\ Parent(n) # 0
        /\ m_Layer[n] /\ m_Layer[Parent(n)]
        /\ Parent(Parent(n)) # 0
        /\ t_pc[n] = "OnUpdate"

C18_TickNeverStuck ==
    (t_pc[0] # "driver" /\ ~terminated) => ENABLED TickStep

\* C19: an OnUpdate that throws does not end the process: the tick goes on
\* with the other nodes and UpdateTree can still return.
C19_ThrowIsIsolated ==
    threw # 0 => ~terminated

\* C20: a callback copy that throws ends like one that returns: the process
\* goes on, the copy counts as run, and the registry, the scheduled
\* iterations of the driving loop and the identifiers are untouched; every
\* other copy handed to the scheduler can still run; and a periodic timer
\* whose callback has thrown is, when it fires, put back in the queue with a
\* later due-time.
C20_CallbackThrowIsCaught ==
    [][/\ \A id \in Ids :
              RunCallback(id, TRUE) =>
                  /\ ~terminated'
                  /\ executed'[id] = executed[id] + 1
                  /\ UNCHANGED <<m_Running, m_NextId, timers, m_TimerQueue, m_TimerMap,
                                 loopTasks, handed>>
       /\ \A id \in Ids :
              (executed[id] < handed[id] /\ \E o \in Ids : thrownAt[o] > 0)
                  => ENABLED RunCallback(id, FALSE)
       /\ \A id \in Periodics :
              (thrownAt[id] > 0 /\ handed'[id] > handed[id]) =>
                  /\ id \in m_TimerQueue' /\ id \in m_TimerMap'
                  /\ timers'[id].nextExecution > timers[id].nextExecution]_vars

\* a periodic timer whose callback threw has fired again and that copy has run
C20_Witness ==
    \E id \in Periodics :
        /\ thrownAt[id] > 0
        /\ handed[id] > thrownAt[id]
        /\ executed[id] = handed[id]
        /\ ~cleared[id]
        /\ id \in m_TimerQueue

\* C21: every pass of ProcessTimerEvents ends and releases m_TimerMutex,
\* whatever the period of the registered intervals, and hands the callback
\* of an entry to the scheduler at most once.
C21_PollPassTerminates ==
    [][/\ m_TimerMutex' = "free"
       /\ \A id \in Ids : handed'[id] <= handed[id] + 1]_vars

\* C22: while the registry runs, lazy restart loses no wake-up.  In every
\* interleaving of the statements of an iteration with those of a
\* SetTimeout/SetInterval call, a queued entry has an iteration that is
\* scheduled, or one that is running and has yet to end, or its registering
\* call has yet to make its EnsureEventLoopRunning call; an iteration ends
\* without a successor only when it found the registry stopped or the queue
\* empty; and every entry whose due-time comes is handed over while the
\* registry runs and the id is not cleared.
C22_NoLostWakeup ==
    /\ [](m_Running /\ m_TimerQueue # {}
             => loopTasks # EmptyBag \/ fibers # EmptyBag \/ ensuring # {})
    /\ [][(fibers' # fibers /\ BagCardinality(fibers') < BagCardinality(fibers)
             /\ loopTasks' = loopTasks)
          => ~m_Running \/ m_TimerQueue = {}]_vars
    /\ \A id \in Ids :
          (id \in DOMAIN timers /\ m_Running /\ regTime[id] + regMs[id] <= MaxTime)
             ~> (handed[id] >= 1 \/ cleared[id] \/ ~m_Running)

\* the emptiness check of the iteration that Start added saw the entry of a
\* registration that has yet to call EnsureEventLoopRunning
C22_Witness ==
    /\ m_Running /\ ensuring # {} /\ loopTasks = EmptyBag
    /\ ensuring = m_TimerQueue
    /\ \E next \in 0..(MaxTime + 1) : BagIn(Fiber("hasMoreTimers", next), fibers)

\* the ids that SetImmediate returned: issued, and never given a FiberTimer
Immediates == {id \in Ids : (\E k \in DOMAIN issued : issued[k] = id) /\ id \notin DOMAIN timers}

C24_DeliveryIsConcurrent ==
    (p_pc = "call" /\ p_idx < Len(p_hs)) =>
        /\ m_Mutex = "free"
        /\ ENABLED (BrokerNext /\ p_pc' = "call" /\ p_idx' = p_idx + 1 /\ p_msg' = p_msg)

\* the hook calls of a walk that returned: one per node that has a layer
OncePerLayer(counts) ==
    \A n \in Nodes : counts[n] = IF n <= nNodes /\ m_Layer[n] THEN 1 ELSE 0

\* C25: a call of OnAttachAll (of OnDetachAll) calls the OnAttach (OnDetach)
\* of no layer twice, and a call that returns has called it exactly once for
\* every node of the forest that has a layer, whatever the shape of the forest
\* and wherever the nodes without a layer are.
C25_HooksOncePerNode ==
    [][/\ (attached' # attached \/ (lastWalk' # lastWalk /\ lastWalk'.call = "attach")) =>
             /\ \A n \in Nodes : attached'[n] <= 1
             /\ ~lastWalk'.threw => OncePerLayer(attached')
       /\ (detached' # detached \/ (lastWalk' # lastWalk /\ lastWalk'.call = "detach")) =>
             /\ \A n \in Nodes : detached'[n] <= 1
             /\ ~lastWalk'.threw => OncePerLayer(detached')]_vars

\* both walks have returned on a forest of two roots in which a node without
\* a layer has a child with one
C25_Witness ==
    /\ lastWalk = [call |-> "detach", threw |-> FALSE]
    /\ Len(m_RootNodes) >= 2
    /\ \E n \in 1..nNodes : ~m_Layer[n] /\ Parent(n) # 0
    /\ \E n \in 1..nNodes : m_Layer[n] /\ Parent(n) # 0 /\ ~m_Layer[Parent(n)]
    /\ OncePerLayer(attached)
    /\ OncePerLayer(detached)

\* Run has returned, or std::terminate has ended the process
RunOver == terminated \/ (bStarts = 1 /\ ~b_Running /\ ~stopping)

\* C26: in one Run, for every layer of the tree: OnUpdate is called only after
\* the one OnAttach of the layer, at most once per tick and exactly once in a
\* tick that completes; OnDetach is called only between ticks, while the event
\* loop and the broker are running; and when the Run is over the layer has had
\* exactly one OnAttach and exactly one OnDetach.
C26_LifecycleOfEveryLayer ==
    [][/\ \A n \in Nodes :
             /\ updates'[n] > updates[n] => attached[n] = 1 /\ detached[n] = 0
             /\ updates'[n] <= 1
             /\ detached'[n] > detached[n] =>
                    /\ t_pc[0] = "driver"
                    /\ \A u \in Nodes : t_pc[u] \in {"idle", "done"}
                    /\ m_Running /\ b_Running
       /\ UpdateTreeReturns => \A n \in 1..nNodes : m_Layer[n] => updates'[n] = 1
       /\ RunOver' => OncePerLayer(attached') /\ OncePerLayer(detached')]_vars

\* the position of x in the sequence list (0: not in it)
IndexIn(list, x) ==
    IF \E i \in DOMAIN list : list[i] = x
    THEN CHOOSE i \in DOMAIN list : list[i] = x ELSE 0

\* the insertion positions on the way from the root list down to node n
RECURSIVE PathOf(_)
PathOf(n) ==
    IF Parent(n) = 0 THEN <<IndexIn(m_RootNodes, n)>>
    ELSE Append(PathOf(Parent(n)), IndexIn(m_Children[Parent(n)], n))

\* pre-order: a node comes before its descendants, and before the nodes of
\* the subtrees that were inserted later at the point where the paths part
Before(p, q) ==
    \/ Len(p) < Len(q) /\ SubSeq(q, 1, Len(p)) = p
    \/ \E i \in 1..Len(p) :
           /\ i <= Len(q)
           /\ SubSeq(p, 1, i - 1) = SubSeq(q, 1, i - 1)
           /\ p[i] < q[i]

\* list holds exactly the nodes named name, each once, in pre-order
PreOrderMatches(list, name) ==
    /\ {list[i] : i \in DOMAIN list} = {n \in 1..nNodes : m_Name[n] = name}
    /\ \A i \in DOMAIN list, j \in DOMAIN list :
           i < j => Before(PathOf(list[i]), PathOf(list[j]))

\* C27: FindAllNodes(name) returns every node with that name, each once, in
\* pre-order (roots and children in insertion order); FindNode(name) returns
\* the first element of that list, and nullptr exactly when the list is
\* empty; neither call changes the tree.
C27_FindNodeIsFirstOfFindAll ==
    [][\A name \in LookupNames :
          /\ FindAllNodes(name) =>
                /\ PreOrderMatches(lastFind'.nodes, name)
                /\ UNCHANGED <<ltVars, ltNode>>
          /\ FindNode(name) =>
                /\ \E all \in {AllMatches(m_RootNodes, name, 1, << >>)} :
                       /\ PreOrderMatches(all, name)
                       /\ lastFind'.node = IF all = << >> THEN 0 ELSE all[1]
                       /\ lastFind'.node = 0 <=> all = << >>
                /\ UNCHANGED <<ltVars, ltNode>>]_vars

\* FindNode returned the first of two nodes of the same name that lie in
\* different subtrees, the one created later
C27_Witness ==
    /\ lastFind.call = "FindNode"
    /\ lastFind.node # 0
    /\ \E n \in 1..nNodes :
           /\ n < lastFind.node
           /\ m_Name[n] = lastFind.name
           /\ Parent(n) # 0 /\ Parent(lastFind.node) # 0
           /\ Parent(n) # Parent(lastFind.node)
           /\ lastFind.node = FirstMatch(m_RootNodes, lastFind.name, 1)

\* the nodes of the set S and all that lie below them
RECURSIVE Below(_, _)
Below(children, S) ==
    LET next == S \cup UNION {{children[q][i] : i \in DOMAIN children[q]} : q \in S}
    IN  IF next = S THEN S ELSE Below(children, next)

\* the object that the k-th Build returned is what it was when it was returned
SameAsReturned(k) ==
    LET b == built[k]
    IN  /\ trees[b.tree] = b.roots
        /\ \A q \in Below(b.children, {b.roots[i] : i \in DOMAIN b.roots}) :
               /\ m_Children[q] = b.children[q]
               /\ m_Name[q] = b.names[q]
               /\ m_Layer[q] = b.layers[q]

\* C28: Build returns the object that holds the tree constructed so far and
\* leaves the builder with a new, empty LayerTree and an empty context; no
\* call on the builder changes the roots or a node of a tree that a Build has
\* returned.
C28_BuildResetsBuilder ==
    [][/\ Build =>
             /\ built'[Len(built')].tree = m_Tree
             /\ trees'[m_Tree] = trees[m_Tree]
             /\ m_Tree' \notin DOMAIN trees
             /\ trees'[m_Tree'] = << >>
             /\ m_Context' = << >>
       /\ \A k \in DOMAIN built : SameAsReturned(k)'
       /\ \A k \in DOMAIN built : \A i \in DOMAIN m_Context' :
              m_Context'[i] \notin Below(m_Children', {built[k].roots[j] : j \in DOMAIN built[k].roots})]_vars

\* a tree of a root and a child was returned, and the builder has built a
\* second tree since
C28_Witness ==
    /\ Len(built) >= 1
    /\ built[1].roots # << >>
    /\ \E i \in DOMAIN built[1].roots : m_Children[built[1].roots[i]] # << >>
    /\ trees[m_Tree] # << >>
    /\ Len(m_Context) >= 2
    /\ SameAsReturned(1)

\* context is empty or a path from a root of the tree under construction down
\* to its last element
PathFromRoot(context) ==
    \/ context = << >>
    \/ /\ \E i \in DOMAIN trees[m_Tree] : trees[m_Tree][i] = context[1]
       /\ \A i \in 2..Len(context) :
              \E j \in DOMAIN m_Children[context[i - 1]] :
                  m_Children[context[i - 1]][j] = context[i]

\* C29: after every call on the builder m_Context is empty or a path from a
\* root of the tree under construction down to the current node; Back moves
\* to the parent of the current node and does nothing only at a root; after
\* ToRoot the current node, if there is one, is a root.
C29_ContextIsPathFromRoot ==
    [][/\ PathFromRoot(m_Context)'
       /\ (Back /\ GetCurrentContext # 0) =>
              GetCurrentContext' = IF Parent(GetCurrentContext) = 0
                                   THEN GetCurrentContext
                                   ELSE Parent(GetCurrentContext)
       /\ (ToRoot /\ GetCurrentContext # 0) => Parent(GetCurrentContext') = 0]_vars

\* the processor thread is inside the loop of ProcessMessages: it waits for
\* messages or is delivering some
Processing == p_pc \in {"wait", "scan", "call"}

\* C30: the lifecycle gate is idempotent.  A Start on a running broker and a
\* Stop on a stopped broker change nothing; IsRunning becomes true only by a
\* Start that takes effect, false only by the completion of a Stop, and is
\* false before the first Start; and a Start after a Stop puts the processor
\* thread back into its loop, where it processes messages.
C30_LifecycleGateIdempotent ==
    /\ (bStarts = 0 => ~IsRunning)
    /\ [][/\ (BrokerStart /\ IsRunning) => UNCHANGED <<brVars, brHist>>
          /\ (BrokerStopRequest /\ ~IsRunning) => UNCHANGED <<brVars, brHist>>
          /\ (IsRunning' /\ ~IsRunning) => bStarts' = bStarts + 1
          /\ (IsRunning /\ ~IsRunning') => stopping /\ ~stopping' /\ p_pc = "exit"
          /\ (bStarts' = bStarts + 1) => IsRunning' /\ ~IsRunning
          /\ (bStarts' = bStarts + 1 /\ bStarts >= 1) => Processing']_vars

\* the entries of the queue whose due-time is <= now
DueAt(now) == {id \in m_TimerQueue : IsDue(timers[id], now)}

\* id was handed to the scheduler by the last poll pass
InLastPass(id) == \E k \in DOMAIN lastPass : lastPass[k] = id

\* C31: a poll pass that read `now` hands every entry of the queue that is
\* due at `now` and not cancelled to the scheduler once, in non-decreasing
\* order of the due-times; it drops the due entries that are cancelled without
\* handing them over; it hands over no entry that is not due and leaves it in
\* the queue; and a SetTimeout with a delay <= 0 is handed over by the first
\* pass that reads the clock after the registration.
C31_PollPassHandsDueEntries ==
    [][\A t \in 0..MaxTime, now \in 0..MaxTime :
          EventLoopFiber(t, now) =>
              /\ \A id \in DueAt(now) :
                    IF Skip(timers[id])
                    THEN handed'[id] = handed[id] /\ id \notin m_TimerQueue'
                    ELSE handed'[id] = handed[id] + 1 /\ InLastPass(id)'
              /\ \A id \in Ids \ DueAt(now) :
                    /\ handed'[id] = handed[id]
                    /\ ~InLastPass(id)'
                    /\ id \in m_TimerQueue => id \in m_TimerQueue'
              /\ \A i, j \in DOMAIN lastPass' :
                    i < j => timers[lastPass'[i]].nextExecution
                                <= timers[lastPass'[j]].nextExecution
              /\ \A id \in m_TimerQueue :
                    (/\ ~timers[id].repeat /\ ~timers[id].cancelled
                     /\ regMs[id] <= 0 /\ now >= regTime[id])
                        => handed'[id] = handed[id] + 1]_vars

\* a pass has handed over two timeouts of different due-times, the first of
\* them registered with a negative delay
C31_Witness ==
    /\ Len(lastPass) = 2
    /\ regMs[lastPass[1]] < 0
    /\ timers[lastPass[1]].nextExecution < timers[lastPass[2]].nextExecution

\* the handler vector of m_Subscribers that the inner range-for of
\* ProcessMessages is iterating (line 184), as it is in the table
IteratedVector(subs) == FindHandlers(subs, p_topic, TypeName(messages[p_msg].type))

\* C32: the delivery loop reads and writes m_Topics and m_Subscribers only
\* while it holds m_Mutex, and while the lock is released for a handler call
\* no Subscribe, Unsubscribe or Publish changes the handler vector that the
\* delivery iterates or the set of topics of the map that it iterates.
C32_TablesStableDuringDelivery ==
    [][/\ (p_pc' = "scan" => m_Mutex' = "proc")
       /\ (p_pc = "call" /\ p_pc' = "call") =>
              /\ IteratedVector(m_Subscribers') = IteratedVector(m_Subscribers)
              /\ DOMAIN m_Topics' = DOMAIN m_Topics]_vars

\* C33: a subscriber's handler runs while the processor thread has released
\* m_Mutex, so that the Publish, Subscribe or Unsubscribe it calls can take the
\* lock; and a message that a handler published is delivered: once its
\* delivery is over, every handler that was subscribed to its (topic, T) when
\* it was published was invoked with it.
C33_HandlersRunOutsideLocks ==
    /\ p_pc = "call" => MutexFree
    /\ \A m \in fromHandler :
           m \in DOMAIN delivered => \A h \in subsAtPublish[m] : Invoked(h, m)

\* the slots that hold node n: <<0, i>> for m_RootNodes[i], <<q, i>> for
\* m_Children[q][i]
Owners(n) ==
    {<<0, i>> : i \in {k \in DOMAIN m_RootNodes : m_RootNodes[k] = n}}
        \cup UNION {{<<q, i>> : i \in {k \in DOMAIN m_Children[q] : m_Children[q][k] = n}}
                       : q \in Nodes}

\* n lies below itself
OwnAncestor(n) ==
    n \in Below(m_Children, {m_Children[n][i] : i \in DOMAIN m_Children[n]})

\* C34: the tree is a forest: every node is held by at most one slot of
\* m_RootNodes or of one m_Children, and no node is its own ancestor.
C34_TreeIsForest ==
    \A n \in 1..nNodes : Cardinality(Owners(n)) <= 1 /\ ~OwnAncestor(n)

\* C35: the executions of one periodic timer are serialized: at no time do
\* two workers execute the callback of the same interval id.
C35_FiringsOfOneIdSerialized ==
    \A id \in Periodics : running[id] <= 1

\* C36: whenever m_TimerMutex is free, m_TimerMap holds exactly the ids of
\* the entries of the queue that are not cancelled, every entry of the queue
\* that is not in the map is cancelled, and every id of the map is carried by
\* exactly one entry of the queue.
C36_MapIsLiveQueue ==
    m_TimerMutex = "free" =>
        /\ m_TimerMap = {id \in m_TimerQueue : ~timers[id].cancelled}
        /\ \A id \in m_TimerQueue \ m_TimerMap : timers[id].cancelled
        /\ \A id \in m_TimerMap : entries[id] = 1
        /\ \A id \in Ids : entries[id] > 0 <=> id \in m_TimerQueue

\* the queue holds a cancelled entry, which the map has lost, next to an
\* interval that has fired and was pushed again
C36_Witness ==
    /\ m_TimerMutex = "free"
    /\ \E id \in m_TimerQueue : id \notin m_TimerMap
    /\ \E id \in m_TimerMap : timers[id].repeat /\ handed[id] >= 1

\* the EventLoopFiber tasks and delayed re-arm tasks that are queued, asleep
\* or running on the scheduler
LoopChains == BagCardinality(loopTasks) + BagCardinality(fibers)

\* C37: at most one chain of the driving loop is alive at any time.
C37_AtMostOneLoopChain == LoopChains <= 1

\* C38: while the registry is stopped (Stop has returned and Start has not
\* been called again) no callback of a timer is handed to the scheduler and
\* every entry of the queue stays in the queue.
C38_NoDispatchWhileStopped ==
    [][(starts >= 1 /\ ~m_Running /\ ~m_Running') =>
           /\ \A id \in DOMAIN timers : handed'[id] = handed[id]
           /\ m_TimerQueue \subseteq m_TimerQueue']_vars

\* C39: the handlers of messages of one topic are invoked in the order of
\* publication: no handler is invoked with a message of a topic after any
\* handler was invoked with a message published to that topic later.
C39_DeliveredInPublicationOrder ==
    \A i, j \in DOMAIN invoked :
        (i < j /\ messages[invoked[i][2]].topic = messages[invoked[j][2]].topic)
            => invoked[i][2] <= invoked[j][2]

\* one handler has received two messages that the application published to
\* one topic, and between them another handler received the first
C39_Witness ==
    \E i, j, k \in DOMAIN invoked :
        /\ i < k /\ k < j
        /\ invoked[i][1] = invoked[j][1]
        /\ invoked[k][1] # invoked[i][1]
        /\ invoked[i][2] = 1 /\ invoked[k][2] = 1 /\ invoked[j][2] = 2
        /\ messages[1].topic = messages[2].topic
        /\ fromHandler = {}

\* the ticks that were started after Close() was called
FurtherTicks == ticks - closedAt

\* the tick in progress cannot end: std::terminate has ended the process in
\* it, or its waits have used up the fibers of the scheduler
TickCannotEnd == TickInProgress /\ ~ENABLED TickStep

====
